---- MODULE Spec2Model ----
(***************************************************************************)
(* Model of the duplicate-song detector of scripts/music                   *)
(* (check_duplicates_enhanced.js) and of the empty-directory scanner       *)
(* (find_empty_dirs.js).                                                   *)
(*                                                                         *)
(* A JavaScript string is modelled as a sequence of one-character strings, *)
(* so that the parsing, normalisation and scoring code can be translated   *)
(* character by character.  A path is a record [dir, name]: dir is the     *)
(* sequence of directory names below the scanned root, name the file name. *)
(* A character outside ASCII is written as its code point: "u611B" is the  *)
(* character U+611B.                                                       *)
(***************************************************************************)
EXTENDS Integers, Sequences, FiniteSets, TLC

----------------------------------------------------------------------------
(* Characters and the JavaScript string primitives the code uses.          *)

Digits == {"0", "1", "2", "3", "4", "5", "6", "7", "8", "9"}

UpperSeq == << "A", "B", "C", "D", "E", "F", "G", "H", "I", "J", "K", "L", "M",
               "N", "O", "P", "Q", "R", "S", "T", "U", "V", "W", "X", "Y", "Z" >>

LowerSeq == << "a", "b", "c", "d", "e", "f", "g", "h", "i", "j", "k", "l", "m",
               "n", "o", "p", "q", "r", "s", "t", "u", "v", "w", "x", "y", "z" >>

UpperCase == { UpperSeq[i] : i \in 1..Len(UpperSeq) }

LowerCase == { LowerSeq[i] : i \in 1..Len(LowerSeq) }

\* [A-Za-z]
AsciiLetters == UpperCase \cup LowerCase

\* \s restricted to the blanks of the model's alphabet
WhiteSpace == {" ", "u3000"}

\* [(\uFF08]
OpenParens == {"(", "uFF08"}

\* [)\uFF09]
CloseParens == {")", "uFF09"}

\* String.prototype.toLowerCase on one character
LowerChar(c) ==
    IF c \in UpperCase
    THEN LowerSeq[CHOOSE i \in 1..Len(UpperSeq) : UpperSeq[i] = c]
    ELSE c

toLowerCase(s) == [i \in 1..Len(s) |-> LowerChar(s[i])]

\* s.substring(from) with 1-based positions
Tail_(s, from) == SubSeq(s, from, Len(s))

\* pat occurs in s at position i (exact comparison)
MatchAt(s, i, pat) ==
    /\ i >= 1
    /\ i + Len(pat) - 1 <= Len(s)
    /\ \A k \in 1..Len(pat) : s[i + k - 1] = pat[k]

\* pat occurs in s at position i under the regex flag i
MatchAtNoCase(s, i, pat) ==
    /\ i >= 1
    /\ i + Len(pat) - 1 <= Len(s)
    /\ \A k \in 1..Len(pat) : LowerChar(s[i + k - 1]) = LowerChar(pat[k])

\* s.indexOf(pat), 1-based; 0 when pat does not occur
indexOf(s, pat) ==
    IF \E i \in 1..Len(s) : MatchAt(s, i, pat)
    THEN CHOOSE i \in 1..Len(s) :
            /\ MatchAt(s, i, pat)
            /\ \A j \in 1..(i - 1) : ~MatchAt(s, j, pat)
    ELSE 0

includes(s, pat) == indexOf(s, pat) # 0

startsWith(s, pat) == MatchAt(s, 1, pat)

\* s.lastIndexOf(c) for one character, 1-based; 0 when absent
lastIndexOfChar(s, c) ==
    IF \E i \in 1..Len(s) : s[i] = c
    THEN CHOOSE i \in 1..Len(s) : s[i] = c /\ \A j \in (i + 1)..Len(s) : s[j] # c
    ELSE 0

\* number of leading characters of s, from position i on, that lie in set
RECURSIVE RunFrom(_, _, _)
RunFrom(s, i, set) ==
    IF i <= Len(s) /\ s[i] \in set THEN 1 + RunFrom(s, i + 1, set) ELSE 0

\* number of characters of set immediately before position i
RECURSIVE RunBefore(_, _, _)
RunBefore(s, i, set) ==
    IF i > 1 /\ s[i - 1] \in set THEN 1 + RunBefore(s, i - 1, set) ELSE 0

\* String.prototype.trim
trim(s) ==
    LET lead == RunFrom(s, 1, WhiteSpace)
    IN  IF lead = Len(s) THEN << >>
        ELSE SubSeq(s, lead + 1, Len(s) - RunBefore(s, Len(s) + 1, WhiteSpace))

\* s.replace(/\s+/g, '')
stripSpaces(s) == SelectSeq(s, LAMBDA c : c \notin WhiteSpace)

----------------------------------------------------------------------------
(* path.extname, path.basename and the extension tests                     *)

\* path.extname(fileName): from the last dot on, unless that dot leads the name
extname(name) ==
    LET d == lastIndexOfChar(name, ".")
    IN  IF d <= 1 \/ name = << ".", "." >> THEN << >> ELSE Tail_(name, d)

\* path.basename(fileName, path.extname(fileName))
basenameNoExt(name) == SubSeq(name, 1, Len(name) - Len(extname(name)))

\* /\.<ext>$/i.test(name)
hasExt(name, ext) ==
    LET pat == << "." >> \o ext
    IN  MatchAtNoCase(name, Len(name) - Len(pat) + 1, pat)

\* AUDIO_EXTENSIONS = /\.(mp3|m4a|flac|wav|wma|ape)$/i
AUDIO_EXTENSIONS ==
    { << "m", "p", "3" >>, << "m", "4", "a" >>, << "f", "l", "a", "c" >>,
      << "w", "a", "v" >>, << "w", "m", "a" >>, << "a", "p", "e" >> }

isAudio(name) == \E e \in AUDIO_EXTENSIONS : hasExt(name, e)

\* LRC_EXTENSION = /\.lrc$/i
isLrc(name) == hasExt(name, << "l", "r", "c" >>)

----------------------------------------------------------------------------
(* The lookup tables of check_duplicates_enhanced.js                       *)

\* DESCRIPTIVE_SUFFIXES, in the order of the source
DESCRIPTIVE_SUFFIXES ==
    << <<"l", "i", "v", "e">>,
       <<"r", "e", "m", "i", "x">>,
       <<"m", "i", "x">>,
       <<"c", "o", "v", "e", "r">>,
       <<"d", "e", "m", "o">>,
       <<"a", "c", "o", "u", "s", "t", "i", "c">>,
       <<"i", "n", "s", "t", "r", "u", "m", "e", "n", "t", "a", "l">>,
       <<"d", "j">>,
       <<"u4F34", "u594F">>,
       <<"u6F14", "u5531", "u4F1A">>,
       <<"u73B0", "u573A">>,
       <<"u7248">>,
       <<"u5927", "u5408", "u5531">>,
       <<"u5408", "u5531">>,
       <<"u72EC", "u5531">>,
       <<"u94A2", "u7434", "u7248">>,
       <<"u5409", "u4ED6", "u7248">>,
       <<"u7EAF", "u97F3", "u4E50">>,
       <<"k", "a", "r", "a", "o", "k", "e">>,
       <<"k", "t", "v">>,
       <<"r", "a", "d", "i", "o", " ", "e", "d", "i", "t">>,
       <<"r", "e", "m", "a", "s", "t", "e", "r">>,
       <<"r", "e", "m", "a", "s", "t", "e", "r", "e", "d">>,
       <<"b", "o", "n", "u", "s">>,
       <<"e", "d", "i", "t">>,
       <<"e", "x", "t", "e", "n", "d", "e", "d">>,
       <<"s", "h", "o", "r", "t">>,
       <<"u86F0", "u4F0F">>,
       <<"u56FD", "u8BED">>,
       <<"u7CA4", "u8BED">>,
       <<"u65E5", "u8BED">>,
       <<"u82F1", "u8BED">>,
       <<"u7FFB", "u5531">> >>

\* TRAD_TO_SIMP (a key written twice in the source keeps its last value)
TRAD_TO_SIMP ==
    "u9F4A" :> "u9F50" @@ "u5B78" :> "u5B66" @@ "u83EF" :> "u534E" @@ "u570B" :> "u56FD" @@ "u611B" :> "u7231" @@
    "u6200" :> "u604B" @@ "u5922" :> "u68A6" @@ "u98A8" :> "u98CE" @@ "u96F2" :> "u4E91" @@ "u6642" :> "u65F6" @@
    "u9593" :> "u95F4" @@ "u6771" :> "u4E1C" @@ "u8ECA" :> "u8F66" @@ "u99AC" :> "u9A6C" @@ "u9CE5" :> "u9E1F" @@
    "u9B5A" :> "u9C7C" @@ "u9577" :> "u957F" @@ "u9580" :> "u95E8" @@ "u958B" :> "u5F00" @@ "u95DC" :> "u5173" @@
    "u807D" :> "u542C" @@ "u8AAA" :> "u8BF4" @@ "u8A71" :> "u8BDD" @@ "u8A9E" :> "u8BED" @@ "u7D05" :> "u7EA2" @@
    "u7DA0" :> "u7EFF" @@ "u85CD" :> "u84DD" @@ "u9EC3" :> "u9EC4" @@ "u982D" :> "u5934" @@ "u81C9" :> "u8138" @@
    "u9AD4" :> "u4F53" @@ "u767C" :> "u53D1" @@ "u7121" :> "u65E0" @@ "u5F9E" :> "u4ECE" @@ "u4F86" :> "u6765" @@
    "u904E" :> "u8FC7" @@ "u88E1" :> "u91CC" @@ "u8449" :> "u53F6" @@ "u96FB" :> "u7535" @@ "u8166" :> "u8111" @@
    "u6A5F" :> "u673A" @@ "u66F8" :> "u4E66" @@ "u756B" :> "u753B" @@ "u8A69" :> "u8BD7" @@ "u6B4C" :> "u6B4C" @@
    "u8072" :> "u58F0" @@ "u97FF" :> "u54CD" @@ "u6A02" :> "u4E50" @@ "u898B" :> "u89C1" @@ "u89AA" :> "u4EB2" @@
    "u5C0D" :> "u5BF9" @@ "u9019" :> "u8FD9" @@ "u88CF" :> "u91CC" @@ "u8AB0" :> "u8C01" @@ "u8B93" :> "u8BA9" @@
    "u9084" :> "u8FD8" @@ "u5F8C" :> "u540E" @@ "u96A8" :> "u968F"

\* the character class of getScore's "prefer simplified Chinese" test
TRAD_INDICATORS ==
    { "u9F4A", "u5B78", "u83EF", "u570B", "u611B", "u6200", "u5922", "u98A8",
      "u96F2", "u6642", "u9593", "u6771", "u8ECA", "u99AC", "u9CE5", "u9B5A",
      "u9577", "u9580", "u958B", "u95DC", "u807D", "u8AAA", "u8A71", "u8A9E",
      "u7D05", "u7DA0", "u85CD", "u9EC3", "u982D", "u81C9", "u9AD4", "u767C",
      "u7121", "u5F9E", "u4F86", "u904E" }

\* the romans array of normalizeRomanNumerals with ROMAN_TO_ARABIC applied
ROMANS ==
    << << << "V", "I", "I", "I" >>, << "8" >> >>,
       << << "V", "I", "I" >>, << "7" >> >>,
       << << "I", "I", "I" >>, << "3" >> >>,
       << << "I", "V" >>, << "4" >> >>,
       << << "V", "I" >>, << "6" >> >>,
       << << "I", "X" >>, << "9" >> >>,
       << << "I", "I" >>, << "2" >> >>,
       << << "V" >>, << "5" >> >>,
       << << "X" >>, << "1", "0" >> >>,
       << << "I" >>, << "1" >> >> >>

----------------------------------------------------------------------------
(* Normalisation helpers                                                   *)

\* toSimplified: str.split('').map(c => TRAD_TO_SIMP[c] || c).join('')
toSimplified(s) ==
    [i \in 1..Len(s) |->
        IF s[i] \in DOMAIN TRAD_TO_SIMP THEN TRAD_TO_SIMP[s[i]] ELSE s[i]]

\* result.replace(/(?<![A-Za-z])roman(?![A-Za-z])/gi, arabic), scanning from i
RECURSIVE replaceRoman(_, _, _, _)
replaceRoman(s, i, roman, arabic) ==
    IF i > Len(s) THEN << >>
    ELSE IF /\ MatchAtNoCase(s, i, roman)
            /\ (i = 1 \/ s[i - 1] \notin AsciiLetters)
            /\ (i + Len(roman) > Len(s) \/ s[i + Len(roman)] \notin AsciiLetters)
         THEN arabic \o replaceRoman(s, i + Len(roman), roman, arabic)
         ELSE << s[i] >> \o replaceRoman(s, i + 1, roman, arabic)

\* romans.forEach(...) from the k-th roman on
RECURSIVE romansFrom(_, _)
romansFrom(s, k) ==
    IF k > Len(ROMANS) THEN s
    ELSE romansFrom(replaceRoman(s, 1, ROMANS[k][1], ROMANS[k][2]), k + 1)

normalizeRomanNumerals(s) == romansFrom(s, 1)

\* name.replace(/^[\d\-\.]+[\s\.\-]+/, ''): the first class is greedy and gives
\* back characters until the second class finds one of its own
stripLeadingNumber(s) ==
    LET first  == Digits \cup {"-", "."}
        second == WhiteSpace \cup {".", "-"}
        a      == RunFrom(s, 1, first)
        ks     == { k \in 1..a : k + 1 <= Len(s) /\ s[k + 1] \in second }
    IN  IF ks = {} THEN s
        ELSE LET k == CHOOSE x \in ks : \A y \in ks : y <= x
             IN  Tail_(s, k + RunFrom(s, k + 1, second) + 1)

\* name.replace(/^\d+\./, '')
stripNumberDot(s) ==
    LET d == RunFrom(s, 1, Digits)
    IN  IF d >= 1 /\ d + 1 <= Len(s) /\ s[d + 1] = "." THEN Tail_(s, d + 2) ELSE s

removeTrackNumber(name) == stripNumberDot(stripLeadingNumber(name))

\* one result.replace(suffixPattern, '') of removeDescriptiveSuffix, where
\* suffixPattern = /\s*[(（]\s*(live|remix|...)[^)）]*[)）]$/i:
\* the leftmost opening bracket that is followed by a keyword and by no closing
\* bracket before the last character, together with the blanks before it
replaceSuffix(s) ==
    LET n  == Len(s)
        ok(p) ==
            /\ s[p] \in OpenParens
            /\ \A j \in (p + 1)..(n - 1) : s[j] \notin CloseParens
            /\ LET q == p + 1 + RunFrom(s, p + 1, WhiteSpace)
               IN  \E k \in 1..Len(DESCRIPTIVE_SUFFIXES) :
                      /\ MatchAtNoCase(s, q, DESCRIPTIVE_SUFFIXES[k])
                      /\ q + Len(DESCRIPTIVE_SUFFIXES[k]) - 1 <= n - 1
        ps == IF n >= 2 /\ s[n] \in CloseParens THEN { p \in 1..(n - 1) : ok(p) } ELSE {}
    IN  IF ps = {} THEN s
        ELSE LET p == CHOOSE x \in ps : \A y \in ps : x <= y
             IN  SubSeq(s, 1, p - RunBefore(s, p, WhiteSpace) - 1)

\* do { prev = result; result = result.replace(...) } while (result !== prev)
RECURSIVE suffixLoop(_)
suffixLoop(s) ==
    LET r == replaceSuffix(s) IN IF r = s THEN s ELSE suffixLoop(r)

removeDescriptiveSuffix(name) == trim(suffixLoop(name))

\* /^\d+$/.test(s)
allDigits(s) == Len(s) > 0 /\ \A i \in 1..Len(s) : s[i] \in Digits

Unknown == << "U", "n", "k", "n", "o", "w", "n" >>

\* parseSongInfo(fileName, defaultArtist): [artist, title]
parseSongInfo(fileName, defaultArtist) ==
    LET nameNoExt == removeTrackNumber(basenameNoExt(fileName))
        spaced    == << " ", "-", " " >>
        split(idx, w) ==
            LET possibleArtist == trim(SubSeq(nameNoExt, 1, idx - 1))
                possibleTitle  == trim(Tail_(nameNoExt, idx + w))
            IN  IF ~allDigits(possibleArtist) /\ Len(possibleArtist) > 0
                THEN [artist |-> possibleArtist, title |-> possibleTitle]
                ELSE [artist |-> << >>, title |-> nameNoExt]
        raw == IF includes(nameNoExt, spaced)
               THEN split(indexOf(nameNoExt, spaced), 3)
               ELSE IF includes(nameNoExt, << "-" >>) /\ ~startsWith(nameNoExt, << "-" >>)
                    THEN split(indexOf(nameNoExt, << "-" >>), 1)
                    ELSE [artist |-> << >>, title |-> nameNoExt]
    IN  [artist |-> IF raw.artist = << >>
                    THEN (IF defaultArtist = << >> THEN Unknown ELSE defaultArtist)
                    ELSE raw.artist,
         title  |-> removeDescriptiveSuffix(raw.title)]

\* length of the match of COLLABORATION_SEPARATORS =
\* /[、&,\/×x]|\s+feat\.?\s+|\s+ft\.?\s+|\s+with\s+/i at position q; 0 if none
separatorAt(s, q) ==
    LET w == RunFrom(s, q, WhiteSpace)
        word(kw, dot) ==
            LET e == q + w + Len(kw)
                d == IF dot /\ e <= Len(s) /\ s[e] = "." /\ RunFrom(s, e + 1, WhiteSpace) > 0
                     THEN 1 ELSE 0
                t == RunFrom(s, e + d, WhiteSpace)
            IN  IF w > 0 /\ MatchAtNoCase(s, q + w, kw) /\ t > 0
                THEN w + Len(kw) + d + t ELSE 0
    IN  IF LowerChar(s[q]) \in {"u3001", "&", ",", "/", "u00D7", "x"} THEN 1
        ELSE IF word(<< "f", "e", "a", "t" >>, TRUE) > 0
             THEN word(<< "f", "e", "a", "t" >>, TRUE)
        ELSE IF word(<< "f", "t" >>, TRUE) > 0 THEN word(<< "f", "t" >>, TRUE)
        ELSE word(<< "w", "i", "t", "h" >>, FALSE)

\* fileArtist.split(COLLABORATION_SEPARATORS): q scans, p is the start of the piece
RECURSIVE splitArtist(_, _, _)
splitArtist(s, q, p) ==
    IF q > Len(s) THEN << SubSeq(s, p, Len(s)) >>
    ELSE LET m == separatorAt(s, q)
         IN  IF m > 0
             THEN << SubSeq(s, p, q - 1) >> \o splitArtist(s, q + m, q + m)
             ELSE splitArtist(s, q + 1, p)

\* artistMatches(fileArtist, dirArtist)
artistMatches(fileArtist, dirArtist) ==
    IF fileArtist = << >> \/ dirArtist = << >> THEN FALSE
    ELSE LET normFile == toSimplified(stripSpaces(toLowerCase(fileArtist)))
             normDir  == toSimplified(stripSpaces(toLowerCase(dirArtist)))
             pieces   == splitArtist(fileArtist, 1, 1)
             collaborators ==
                 SelectSeq([i \in 1..Len(pieces) |->
                               toSimplified(stripSpaces(toLowerCase(trim(pieces[i]))))],
                           LAMBDA c : Len(c) > 0)
         IN  \/ normFile = normDir
             \/ \E i \in 1..Len(collaborators) :
                   \/ collaborators[i] = normDir
                   \/ includes(collaborators[i], normDir)
                   \/ includes(normDir, collaborators[i])

\* getSongKey(artist, title, dirArtist): the key `${normArtist}|${normTitle}`
getSongKey(artist, title, dirArtist) ==
    LET finalArtist == IF artistMatches(artist, dirArtist) THEN dirArtist ELSE artist
        normArtist  == stripSpaces(toLowerCase(toSimplified(finalArtist)))
        normTitle   == stripSpaces(toLowerCase(normalizeRomanNumerals(toSimplified(title))))
    IN  normArtist \o << "|" >> \o normTitle

\* 1 MB, the divisor of getScore (size / 1024 / 1024)
MB == 1048576

\* getScore with the bonus of .ape given to .flac files too
getScoreFlatBonus(fileInfo) ==
    LET name == fileInfo.name
    IN  (IF includes(name, << " ", "-", " " >>) THEN 100 * MB ELSE 0)
      + (IF \E i \in 1..Len(name) : name[i] \in TRAD_INDICATORS THEN 0 ELSE 20 * MB)
      + (IF fileInfo.size # 0 THEN fileInfo.size ELSE 0)
      + (IF hasExt(name, << "f", "l", "a", "c" >>) THEN 40 * MB ELSE 0)
      + (IF hasExt(name, << "a", "p", "e" >>) THEN 40 * MB ELSE 0)
      + (IF hasExt(name, << "w", "a", "v" >>) THEN 30 * MB ELSE 0)

\* getScore(fileInfo), multiplied by MB so that the size term stays an integer
getScore(fileInfo) ==
    LET name == fileInfo.name
    IN  (IF includes(name, << " ", "-", " " >>) THEN 100 * MB ELSE 0)
      + (IF \E i \in 1..Len(name) : name[i] \in TRAD_INDICATORS THEN 0 ELSE 20 * MB)
      + (IF fileInfo.size # 0 THEN fileInfo.size ELSE 0)
      + (IF hasExt(name, << "f", "l", "a", "c" >>) THEN 50 * MB ELSE 0)
      + (IF hasExt(name, << "a", "p", "e" >>) THEN 40 * MB ELSE 0)
      + (IF hasExt(name, << "w", "a", "v" >>) THEN 30 * MB ELSE 0)

\* insertByScore placing f ahead of the elements of equal score
insertByScoreAhead(sorted, f) ==
    LET k == Cardinality({ i \in 1..Len(sorted) : getScore(sorted[i]) > getScore(f) })
    IN  SubSeq(sorted, 1, k) \o << f >> \o SubSeq(sorted, k + 1, Len(sorted))

\* Array.prototype.sort is stable: f goes behind every element the comparator
\* getScore(b) - getScore(a) does not put behind it
insertByScore(sorted, f) ==
    LET k == Cardinality({ i \in 1..Len(sorted) : getScore(sorted[i]) >= getScore(f) })
    IN  SubSeq(sorted, 1, k) \o << f >> \o SubSeq(sorted, k + 1, Len(sorted))

RECURSIVE sortPrefix(_, _)
sortPrefix(files, n) ==
    IF n = 0 THEN << >> ELSE insertByScore(sortPrefix(files, n - 1), files[n])

\* sortByScore leaving the files as they are
unsorted(files) == files

\* d.files.sort((a, b) => getScore(b) - getScore(a))
sortByScore(files) == sortPrefix(files, Len(files))

\* findAssociatedLrc with the lyric name built on the whole file name ("s.mp3.lrc")
findAssociatedLrcFullName(audioPath, lrcIndex) ==
    LET lrcPath == [dir  |-> audioPath.dir,
                    name |-> audioPath.name \o << ".", "l", "r", "c" >>]
    IN  IF lrcPath \in lrcIndex THEN {lrcPath} ELSE {}

\* findAssociatedLrc(audioPath, lrcIndex): the set holding the lyric path, or {}
findAssociatedLrc(audioPath, lrcIndex) ==
    LET lrcPath == [dir  |-> audioPath.dir,
                    name |-> basenameNoExt(audioPath.name) \o << ".", "l", "r", "c" >>]
    IN  IF lrcPath \in lrcIndex THEN {lrcPath} ELSE {}

\* safeDirName(name): name.replace(/[\/\\:*?"<>|]/g, '_').substring(0, 50)
safeDirName(name) ==
    LET r == [i \in 1..Len(name) |->
                 IF name[i] \in {"/", "\\", ":", "*", "?", "\"", "<", ">", "|"}
                 THEN "_" ELSE name[i]]
    IN  SubSeq(r, 1, IF Len(r) < 50 THEN Len(r) ELSE 50)

----------------------------------------------------------------------------
(* The scanned tree                                                        *)

\* the most files a scanned tree holds
MaxFiles == 3

\* the size in bytes of the non-empty files of the model (3.5 MB)
FileSize == 3670016

\* file contents: the bytes a file holds and their number
Contents ==
    { [bytes |-> "none", size |-> 0],
      [bytes |-> "x", size |-> FileSize],
      [bytes |-> "y", size |-> FileSize] }

\* what a lyric file holds (never read by the detector)
LyricContent == [bytes |-> "lyric", size |-> 1]

\* the names the scanned root directory may have (process.argv[2])
RootNames == { << "A" >>, << "B" >> }

Root == << >>

SubDir == << << "d" >> >>

\* the files a tree is drawn from, in directory order
Menu ==
    << [dir |-> Root, name |-> << "A", " ", "-", " ", "s", ".", "m", "p", "3" >>],
       [dir |-> Root, name |-> << "s", ".", "f", "l", "a", "c" >>],
       [dir |-> Root, name |-> << "s", ".", "m", "p", "3" >>],
       [dir |-> Root, name |-> << "s", ".", "l", "r", "c" >>],
       [dir |-> Root,
        name |-> << "s", " ", "(", "L", "i", "v", "e", ")", ".", "m", "p", "3" >>],
       [dir |-> Root, name |-> << "u611B", ".", "w", "a", "v" >>],
       [dir |-> Root, name |-> << "u7231", ".", "a", "p", "e" >>],
       [dir |-> SubDir, name |-> << "s", ".", "m", "p", "3" >>],
       [dir |-> SubDir, name |-> << "s", ".", "l", "r", "c" >>] >>

NoPath == [dir |-> << >>, name |-> << >>]

VARIABLES
    disk,                \* the files of the tree, in enumeration order:
                         \* a sequence of [path, content]
    dirArtist,           \* path.basename(targetDir)
    pc,                  \* the step run() is at
    lrcIndex,            \* run: lrcIndex (the set of its keys)
    fileInfos,           \* run: fileInfos
    hashed,              \* the paths getFileHash was called on
    unreadable,          \* the paths for which getFileHash returned null
    exactDuplicates,     \* run: exactDuplicates
    semanticDuplicates,  \* run: semanticDuplicates
    lines,               \* the commands of the script written by run
    tree,                \* find_empty_dirs.js: the directories and files below
                         \* targetDir
    emptyDirs,           \* find_empty_dirs.js, run: emptyDirs
    noAudioDirs,         \* find_empty_dirs.js, run: noAudioDirs
    candidate,           \* the fileInfo handed to getScore
    scores,              \* what each getScore returned for candidate
    trackName,           \* the string handed to the title normalisers
    songKeys,            \* per normaliser, its result on trackName followed by
                         \* its result on that result
    result,              \* removeDescriptiveSuffix: result
    prev,                \* removeDescriptiveSuffix: prev
    orphans              \* findOrphanLrcs: results (the paths of the lyric files)

vars == << disk, dirArtist, pc, lrcIndex, fileInfos, hashed, unreadable,
           exactDuplicates, semanticDuplicates, lines,
           tree, emptyDirs, noAudioDirs, candidate, scores, trackName, songKeys,
           result, prev, orphans >>

\* the state of run() of check_duplicates_enhanced.js
detectorVars == << disk, dirArtist, lrcIndex, fileInfos, hashed, unreadable,
                   exactDuplicates, semanticDuplicates >>

\* the state of run() of find_empty_dirs.js
scannerVars == << tree, emptyDirs, noAudioDirs >>

\* the state of a call of getScore
scoreVars == << candidate, scores >>

\* the state of the calls of the title normalisers
normalizeVars == << trackName, songKeys, result, prev >>

\* the state of findOrphanLrcs
orphanVars == << orphans >>

\* what a step of the detector, of a getScore, of find_empty_dirs.js or of a
\* normaliser leaves alone
besidesDetector == << scannerVars, scoreVars, normalizeVars, orphanVars >>

besidesScore == << detectorVars, scannerVars, normalizeVars, orphanVars >>

besidesScanner == << detectorVars, scoreVars, normalizeVars, orphanVars >>

besidesNormalize == << detectorVars, scannerVars, scoreVars, orphanVars >>

NoTree == [dirs |-> {}, files |-> {}]

NoCandidate == [path |-> NoPath, name |-> << >>, size |-> 0]

NoScores == [enhanced |-> {}, utils |-> {}]

\* no run of the detector
DetectorIdle ==
    /\ disk = << >>
    /\ dirArtist = << >>
    /\ lrcIndex = {}
    /\ fileInfos = << >>
    /\ hashed = {}
    /\ unreadable = {}
    /\ exactDuplicates = << >>
    /\ semanticDuplicates = << >>

\* no run of find_empty_dirs.js
ScannerIdle ==
    /\ tree = NoTree
    /\ emptyDirs = << >>
    /\ noAudioDirs = << >>

\* no call of getScore
ScoreIdle ==
    /\ candidate = NoCandidate
    /\ scores = NoScores

\* let prev; (never read before the loop assigns it)
undefined == << "undefined" >>

NoKeys == [enhanced |-> << >>, track |-> << >>, orphan |-> << >>]

\* no call of a title normaliser
NormalizeIdle ==
    /\ trackName = << >>
    /\ songKeys = NoKeys
    /\ result = << >>
    /\ prev = undefined

\* no call of findOrphanLrcs
OrphanIdle == orphans = << >>

\* only the tool named runs
IdleBesides(tool) ==
    /\ tool = "detector" \/ DetectorIdle
    /\ tool = "scanner" \/ ScannerIdle
    /\ tool = "score" \/ ScoreIdle
    /\ tool = "normalize" \/ NormalizeIdle
    /\ OrphanIdle

\* the trees of at most MaxFiles files of the menu; fs.readdirSync lists every
\* directory either in ascending or in descending order of the menu
Trees ==
    { t \in UNION { [1..n -> 1..Len(Menu)] : n \in 0..MaxFiles } :
        \/ \A i \in 1..(Len(t) - 1) : t[i] < t[i + 1]
        \/ \A i \in 1..(Len(t) - 1) : t[i] > t[i + 1] }

Init ==
    /\ \E t \in Trees :
         \E c \in [1..Len(t) -> Contents] :
            /\ \A i \in 1..Len(t) : isLrc(Menu[t[i]].name) => c[i].bytes = "none"
            \* the non-empty contents are named in the order of their first file
            /\ \A i \in 1..Len(t) :
                  c[i].bytes = "y" => \E j \in 1..(i - 1) : c[j].bytes = "x"
            /\ disk = [i \in 1..Len(t) |->
                          [path |-> Menu[t[i]],
                           content |-> IF isLrc(Menu[t[i]].name)
                                       THEN LyricContent ELSE c[i]]]
    /\ dirArtist \in RootNames
    /\ pc = "scan"
    /\ lrcIndex = {}
    /\ fileInfos = << >>
    /\ hashed = {}
    /\ unreadable = {}
    /\ exactDuplicates = << >>
    /\ semanticDuplicates = << >>
    /\ lines = << >>
    /\ IdleBesides("detector")

----------------------------------------------------------------------------
(* run() of check_duplicates_enhanced.js                                   *)

\* findAllFiles(targetDir): the files in enumeration order, without every entry
\* whose name starts with a dot (a skipped directory hides what lies below it)
findAllFiles ==
    LET dotted(name) == startsWith(name, << "." >>)
        kept(f) == /\ ~dotted(f.path.name)
                   /\ \A i \in 1..Len(f.path.dir) : ~dotted(f.path.dir[i])
    IN  SelectSeq(disk, kept)

\* fileInfoOf with a key made of the title alone
fileInfoOfTitleKey(f, index) ==
    LET songInfo == parseSongInfo(f.path.name, dirArtist)
    IN  [path    |-> f.path,
         name    |-> f.path.name,
         size    |-> f.content.size,
         artist  |-> songInfo.artist,
         title   |-> songInfo.title,
         key     |-> << "|" >> \o stripSpaces(toLowerCase(songInfo.title)),
         lrcPath |-> findAssociatedLrc(f.path, index)]

\* the fileInfos.map(...) of run: one record per audio file
fileInfoOf(f, index) ==
    LET songInfo == parseSongInfo(f.path.name, dirArtist)
    IN  [path    |-> f.path,
         name    |-> f.path.name,
         size    |-> f.content.size,
         artist  |-> songInfo.artist,
         title   |-> songInfo.title,
         key     |-> getSongKey(songInfo.artist, songInfo.title, dirArtist),
         lrcPath |-> findAssociatedLrc(f.path, index)]

\* the elements of s, from position i on, whose key is k
RECURSIVE withKey(_, _, _, _)
withKey(s, keys, k, i) ==
    IF i > Len(s) THEN << >>
    ELSE (IF keys[i] = k THEN << s[i] >> ELSE << >>) \o withKey(s, keys, k, i + 1)

\* a Map from key to array filled by forEach: its entries in insertion order
groupByKey(s, keys) ==
    LET firsts == { i \in 1..Len(s) : \A j \in 1..(i - 1) : keys[j] # keys[i] }
        nth(n) == CHOOSE i \in firsts : Cardinality({ j \in firsts : j < i }) = n - 1
    IN  [n \in 1..Cardinality(firsts) |->
            [key |-> keys[nth(n)], files |-> withKey(s, keys, keys[nth(n)], 1)]]

RECURSIVE flatten(_)
flatten(ss) == IF ss = << >> THEN << >> ELSE Head(ss) \o flatten(Tail(ss))

\* the elements of a sequence
Range(s) == { s[i] : i \in 1..Len(s) }

\* the bytes of the file at path
contentAt(path) == disk[CHOOSE i \in 1..Len(disk) : disk[i].path = path].content

\* crypto.createHash('md5') over the bytes of a file
md5(content) == << "md5", content.bytes >>

\* sizeGroups keeping only the sizes shared by more than two files
sizeGroupsOverTwo ==
    SelectSeq(groupByKey(fileInfos, [i \in 1..Len(fileInfos) |-> fileInfos[i].size]),
              LAMBDA g : Len(g.files) > 2 /\ g.key > 0)

\* sizeGroups: the entries of sizeMap with more than one file and size > 0
sizeGroups ==
    SelectSeq(groupByKey(fileInfos, [i \in 1..Len(fileInfos) |-> fileInfos[i].size]),
              LAMBDA g : Len(g.files) > 1 /\ g.key > 0)

\* exactGroupsOf without the hashMap: the whole size group is one group
exactGroupsOfSizeOnly(group, failed) ==
    << [hash |-> md5(contentAt(group.files[1].path)), size |-> group.key,
        files |-> group.files] >>

\* the hashMap of one size group and the groups it adds to exactDuplicates;
\* getFileHash returns null for the paths of failed
exactGroupsOf(group, failed) ==
    LET readable == SelectSeq(group.files, LAMBDA f : f.path \notin failed)
        hashMap  == groupByKey(readable,
                        [i \in 1..Len(readable) |-> md5(contentAt(readable[i].path))])
        same     == SelectSeq(hashMap, LAMBDA h : Len(h.files) > 1)
    IN  [i \in 1..Len(same) |->
            [hash |-> same[i].key, size |-> group.key, files |-> same[i].files]]

\* the paths of the files of a sequence of groups
pathsOf(groups) ==
    UNION { { groups[g].files[i].path : i \in 1..Len(groups[g].files) } :
              g \in 1..Len(groups) }

\* semanticGroupsOf without the skip: every key shared by two files is reported
semanticGroupsOfAll(songMap) ==
    SelectSeq(songMap, LAMBDA group : Len(group.files) > 1)

\* the loop over songMap: a group of two or more files is reported unless all of
\* its files lie in exact groups of one and the same hash
semanticGroupsOf(songMap) ==
    LET exactDupPaths == pathsOf(exactDuplicates)
        edOf(f) == exactDuplicates[
                      CHOOSE e \in 1..Len(exactDuplicates) :
                         /\ f.path \in pathsOf(<< exactDuplicates[e] >>)
                         /\ \A x \in 1..(e - 1) :
                               f.path \notin pathsOf(<< exactDuplicates[x] >>)]
        skipped(group) ==
            /\ \A f \in Range(group.files) : f.path \in exactDupPaths
            /\ Cardinality({ edOf(f).hash : f \in Range(group.files) }) <= 1
    IN  SelectSeq(songMap, LAMBDA group : Len(group.files) > 1 /\ ~skipped(group))

\* lines 333-373: enumerate, split into audio and lyric files, build fileInfos
Scan ==
    /\ pc = "scan"
    /\ LET allFiles   == findAllFiles
           audioFiles == SelectSeq(allFiles, LAMBDA f : isAudio(f.path.name))
           index      == { f.path : f \in { x \in Range(allFiles) :
                                ~isAudio(x.path.name) /\ isLrc(x.path.name) } }
       IN  /\ lrcIndex' = index
           /\ fileInfos' = [i \in 1..Len(audioFiles) |-> fileInfoOf(audioFiles[i], index)]
           /\ pc' = IF Len(audioFiles) = 0 THEN "done" ELSE "exact"
    /\ UNCHANGED << disk, dirArtist, hashed, unreadable, exactDuplicates,
                    semanticDuplicates, lines, besidesDetector >>

\* lines 380-409: hash the files that share a size, group them by hash
ExactPass ==
    /\ pc = "exact"
    /\ LET toHash == pathsOf(sizeGroups)
       IN  \E failed \in SUBSET toHash :
              /\ hashed' = toHash
              /\ unreadable' = failed
              /\ exactDuplicates' =
                    flatten([g \in 1..Len(sizeGroups) |-> exactGroupsOf(sizeGroups[g], failed)])
    /\ pc' = "semantic"
    /\ UNCHANGED << disk, dirArtist, lrcIndex, fileInfos, semanticDuplicates, lines,
                    besidesDetector >>

\* lines 422-453: group the files that have a title by key
SemanticPass ==
    /\ pc = "semantic"
    /\ LET withTitle == SelectSeq(fileInfos, LAMBDA f : f.title # << >> /\ f.key # << >>)
           songMap   == groupByKey(withTitle,
                                   [i \in 1..Len(withTitle) |-> withTitle[i].key])
       IN  semanticDuplicates' = semanticGroupsOf(songMap)
    /\ pc' = "report"
    /\ UNCHANGED << disk, dirArtist, lrcIndex, fileInfos, hashed, unreadable,
                    exactDuplicates, lines, besidesDetector >>

\* d.files.sort(...) on every group of a list
sortGroups(groups) ==
    [g \in 1..Len(groups) |-> [groups[g] EXCEPT !.files = sortByScore(@)]]

\* lines 463-501: the report sorts every group in place; with no group, run returns
Report ==
    /\ pc = "report"
    /\ exactDuplicates' = sortGroups(exactDuplicates)
    /\ semanticDuplicates' = sortGroups(semanticDuplicates)
    /\ pc' = IF Len(exactDuplicates) = 0 /\ Len(semanticDuplicates) = 0
             THEN "done" ELSE "emit"
    /\ UNCHANGED << disk, dirArtist, lrcIndex, fileInfos, hashed, unreadable, lines,
                    besidesDetector >>

DigitSeq == << "0", "1", "2", "3", "4", "5", "6", "7", "8", "9" >>

\* String(n)
RECURSIVE decimal(_)
decimal(n) ==
    IF n < 10 THEN << DigitSeq[n + 1] >>
    ELSE decimal(n \div 10) \o << DigitSeq[(n % 10) + 1] >>

\* String(n).padStart(3, '0')
RECURSIVE padStart3(_)
padStart3(s) == IF Len(s) >= 3 THEN s ELSE padStart3(<< "0" >> \o s)

\* tempDir = '_duplicates_temp'
tempDir ==
    << "_", "d", "u", "p", "l", "i", "c", "a", "t", "e", "s", "_", "t", "e", "m", "p" >>

groupPrefix == << "g", "r", "o", "u", "p", "_" >>

\* `${tempDir}/exact/group_${String(idx + 1).padStart(3, '0')}`, idx counted from 1
exactGroupDir(idx) ==
    << tempDir, << "e", "x", "a", "c", "t" >>, groupPrefix \o padStart3(decimal(idx)) >>

\* the pieces of key.split('|'), from position i on
RECURSIVE splitBar(_, _, _)
splitBar(s, q, p) ==
    IF q > Len(s) THEN << SubSeq(s, p, Len(s)) >>
    ELSE IF s[q] = "|" THEN << SubSeq(s, p, q - 1) >> \o splitBar(s, q + 1, q + 1)
         ELSE splitBar(s, q + 1, p)

\* `${tempDir}/semantic/group_${...}_${safeDirName(title)}` with
\* [artist, title] = d.key.split('|')
semanticGroupDir(idx, key) ==
    << tempDir, << "s", "e", "m", "a", "n", "t", "i", "c" >>,
       groupPrefix \o padStart3(decimal(idx)) \o << "_" >>
          \o safeDirName(splitBar(key, 1, 1)[2]) >>

command(cmd, src, dst) == [cmd |-> cmd, src |-> src, dst |-> dst]

\* d.files.slice(1).forEach(...): one mv per file behind the first, followed by
\* the mv of its lyric file when it has one
RECURSIVE moveLines(_, _, _)
moveLines(files, i, groupDir) ==
    IF i > Len(files) THEN << >>
    ELSE << command("mv", files[i].path, groupDir) >>
         \o (IF files[i].lrcPath # {}
             THEN << command("mv", CHOOSE l \in files[i].lrcPath : TRUE, groupDir) >>
             ELSE << >>)
         \o moveLines(files, i + 1, groupDir)

\* removable without the slice(1): the first file is moved too
removableAll(files) == sortByScore(files)

\* d.files.slice(1) after d.files.sort(...): the files the script moves
removable(files) == Tail(sortByScore(files))

\* the lines of one group: mkdir -p of its directory, then the moves
groupLines(files, groupDir) ==
    << command("mkdir", NoPath, groupDir) >> \o moveLines(removable(files), 1, groupDir)

\* lines 510-590: the script _cleanup_duplicates.sh
scriptLines ==
    << command("set", NoPath, << >>), command("cd", NoPath, << >>) >>
    \o flatten([g \in 1..Len(exactDuplicates) |->
                   groupLines(exactDuplicates[g].files, exactGroupDir(g))])
    \o flatten([g \in 1..Len(semanticDuplicates) |->
                   groupLines(semanticDuplicates[g].files,
                              semanticGroupDir(g, semanticDuplicates[g].key))])
    \o << command("echo", NoPath, << >>), command("echo", NoPath, << >>),
          command("echo", NoPath, << >>), command("echo", NoPath, << >>) >>

\* lines 510-605: sort every group again and write the script
Emit ==
    /\ pc = "emit"
    /\ exactDuplicates' = sortGroups(exactDuplicates)
    /\ semanticDuplicates' = sortGroups(semanticDuplicates)
    /\ lines' = scriptLines
    /\ pc' = "done"
    /\ UNCHANGED << disk, dirArtist, lrcIndex, fileInfos, hashed, unreadable,
                    besidesDetector >>

Next == Scan \/ ExactPass \/ SemanticPass \/ Report \/ Emit

Spec == Init /\ [][Next]_vars

----------------------------------------------------------------------------
(* getScore of check_duplicates_enhanced.js and of check_duplicates_utils  *)

\* getScore(fileInfo) of check_duplicates_utils, multiplied by MB
getScoreUtils(fileInfo) ==
    LET name == fileInfo.path.name
        has(c) == \E i \in 1..Len(name) : name[i] = c
    IN  (IF includes(name, << " ", "-", " " >>) THEN 100 * MB ELSE 0)
      + (IF has("u7231") /\ ~has("u611B") THEN 10 * MB ELSE 0)
      + (IF has("u4EB2") /\ ~has("u89AA") THEN 10 * MB ELSE 0)
      + (IF fileInfo.size # 0 THEN fileInfo.size ELSE 0)

\* the most whole megabytes a scored file holds
MaxMegabytes == 2

\* the sizes of the scored files: whole megabytes, one byte more, and FileSize
ScoreSizes ==
    { m * MB : m \in 0..MaxMegabytes } \cup { m * MB + 1 : m \in 0..MaxMegabytes }
       \cup { FileSize }

\* the names of the scored files: with and without "Artist - ", with and
\* without the characters the two getScore look for, in every lossless format,
\* in both cases of the extension
ScoreNames ==
    { prefix \o base \o ext :
        prefix \in { << >>, << "A", " ", "-", " " >>, << "A", "-" >> },
        base \in { << "s" >>, << "u611B" >>, << "u7231" >>, << "u7231", "u611B" >>,
                   << "u4EB2" >>, << "u89AA" >>, << "u4EB2", "u7231" >>,
                   << "u570B" >> },
        ext \in { << ".", "m", "p", "3" >>, << ".", "f", "l", "a", "c" >>,
                  << ".", "F", "L", "A", "C" >>, << ".", "a", "p", "e" >>,
                  << ".", "w", "a", "v" >>, << ".", "W", "a", "v" >>,
                  << ".", "m", "4", "a" >> } }

InitScore ==
    /\ \E name \in ScoreNames, size \in ScoreSizes :
          candidate = [path |-> [dir |-> Root, name |-> name], name |-> name,
                       size |-> size]
    /\ scores = NoScores
    /\ pc = "score"
    /\ lines = << >>
    /\ IdleBesides("score")

\* a call of getScore of check_duplicates_enhanced.js
ScoreEnhanced ==
    /\ pc = "score"
    /\ scores.enhanced = {}
    /\ scores' = [scores EXCEPT !.enhanced = { getScore(candidate) }]
    /\ UNCHANGED << candidate, pc, lines, besidesScore >>

\* a call of getScore of check_duplicates_utils
ScoreUtils ==
    /\ pc = "score"
    /\ scores.utils = {}
    /\ scores' = [scores EXCEPT !.utils = { getScoreUtils(candidate) }]
    /\ UNCHANGED << candidate, pc, lines, besidesScore >>

NextScore == ScoreEnhanced \/ ScoreUtils

SpecScore == InitScore /\ [][NextScore]_vars

----------------------------------------------------------------------------
(* find_empty_dirs.js                                                      *)

\* IGNORED_FILES = /^\..+$/
IGNORED_FILES(item) == Len(item) > 1 /\ item[1] = "."

\* the directories a tree is drawn from, in directory order
DirMenu ==
    << << << "a" >> >>,
       << << "a" >>, << "b" >> >>,
       << << "c" >> >>,
       << << "_", "t" >> >>,
       << << ".", "g" >> >> >>

\* the files a tree is drawn from, in directory order
TreeFileMenu ==
    << [dir |-> << >>, name |-> << "x", ".", "m", "p", "3" >>],
       [dir |-> << << "a" >> >>, name |-> << "x", ".", "m", "p", "3" >>],
       [dir |-> << << "a" >> >>, name |-> << "n", ".", "t", "x", "t" >>],
       [dir |-> << << "a" >>, << "b" >> >>, name |-> << "x", ".", "M", "P", "3" >>],
       [dir |-> << << "a" >>, << "b" >> >>, name |-> << ".", "h" >>],
       [dir |-> << << "c" >> >>, name |-> << "n", ".", "t", "x", "t" >>],
       [dir |-> << << "c" >> >>, name |-> << "y", ".", "o", "g", "g" >>],
       [dir |-> << << "c" >> >>, name |-> << "_", "n" >>],
       [dir |-> << << "_", "t" >> >>, name |-> << "x", ".", "m", "p", "3" >>] >>

\* the most files a tree of find_empty_dirs.js holds
MaxTreeFiles == 3

\* path.dirname of a directory below targetDir
parentOf(dir) == SubSeq(dir, 1, Len(dir) - 1)

\* path.basename of a directory below targetDir
baseOf(dir) == dir[Len(dir)]

\* the trees: every directory lies in a directory of the tree, and so does
\* every file
ScannedTrees ==
    { t \in [dirs : SUBSET Range(DirMenu), files : SUBSET Range(TreeFileMenu)] :
        /\ \A d \in t.dirs : Len(d) > 1 => parentOf(d) \in t.dirs
        /\ \A f \in t.files : f.dir # << >> => f.dir \in t.dirs
        /\ Cardinality(t.files) <= MaxTreeFiles }

\* checkDirStatus(dir): the files and the directories of dir that are neither
\* hidden nor temporary, and whether one of these files is an audio file
checkDirStatus(t, dir) ==
    LET kept(item) == ~IGNORED_FILES(item) /\ ~startsWith(item, << "_" >>)
        files == SelectSeq(TreeFileMenu,
                     LAMBDA f : f \in t.files /\ f.dir = dir /\ kept(f.name))
        dirs  == SelectSeq(DirMenu,
                     LAMBDA d : d \in t.dirs /\ parentOf(d) = dir /\ kept(baseOf(d)))
    IN  [files |-> files, dirs |-> dirs,
         hasAudio |-> \E i \in 1..Len(files) : isAudio(files[i].name)]

\* checkDirDeep(dir)
RECURSIVE checkDirDeep(_, _)
checkDirDeep(t, dir) ==
    LET status == checkDirStatus(t, dir)
        allSubdirsEmpty ==
            \A i \in 1..Len(status.dirs) : checkDirDeep(t, status.dirs[i]).effectivelyEmpty
        anySubdirHasAudio ==
            \E i \in 1..Len(status.dirs) : checkDirDeep(t, status.dirs[i]).hasAudioDeep
    IN  IF Len(status.files) = 0 /\ Len(status.dirs) = 0
        THEN [effectivelyEmpty |-> TRUE, hasAudioDeep |-> FALSE]
        ELSE IF Len(status.files) > 0
             THEN [effectivelyEmpty |-> FALSE,
                   hasAudioDeep |-> status.hasAudio \/ anySubdirHasAudio]
             ELSE [effectivelyEmpty |-> allSubdirsEmpty,
                   hasAudioDeep |-> anySubdirHasAudio]

\* collectDirs(dir, ...) on every directory of a list: what the calls push on
\* emptyDirs and on noAudioDirs
RECURSIVE collectDirs(_, _)
collectDirs(t, dirs) ==
    IF dirs = << >> THEN [emptyDirs |-> << >>, noAudioDirs |-> << >>]
    ELSE LET dir        == Head(dirs)
             status     == checkDirStatus(t, dir)
             deepStatus == checkDirDeep(t, dir)
             here ==
                IF deepStatus.effectivelyEmpty
                THEN [emptyDirs |-> << [path |-> dir, relPath |-> dir] >>,
                      noAudioDirs |-> << >>]
                ELSE IF Len(status.files) > 0 /\ ~deepStatus.hasAudioDeep
                     THEN [emptyDirs |-> << >>,
                           noAudioDirs |-> << [path |-> dir, relPath |-> dir,
                                               fileCount |-> Len(status.files)] >>]
                     ELSE collectDirs(t, status.dirs)
             rest == collectDirs(t, Tail(dirs))
         IN  [emptyDirs   |-> here.emptyDirs \o rest.emptyDirs,
              noAudioDirs |-> here.noAudioDirs \o rest.noAudioDirs]

InitEmptyDirs ==
    /\ tree \in ScannedTrees
    /\ emptyDirs = << >>
    /\ noAudioDirs = << >>
    /\ pc = "collect"
    /\ lines = << >>
    /\ IdleBesides("scanner")

\* lines 1243-1290 of run: collect from every directory of targetDir, report,
\* and return when nothing was found
CollectDirs ==
    /\ pc = "collect"
    /\ LET found == collectDirs(tree, checkDirStatus(tree, << >>).dirs)
       IN  /\ emptyDirs' = found.emptyDirs
           /\ noAudioDirs' = found.noAudioDirs
           /\ pc' = IF Len(found.emptyDirs) + Len(found.noAudioDirs) = 0
                    THEN "done" ELSE "write"
    /\ UNCHANGED << tree, lines, besidesScanner >>

\* rm -rf "./${d.relPath}"
removeLine(d) == command("rm", [dir |-> d.relPath, name |-> << >>], << >>)

\* lines 1296-1350 of run: the commands of _cleanup_empty_dirs.sh
cleanupLines ==
    << command("set", NoPath, << >>), command("cd", NoPath, << >>) >>
    \o [i \in 1..Len(emptyDirs) |-> removeLine(emptyDirs[i])]
    \o [i \in 1..Len(noAudioDirs) |-> removeLine(noAudioDirs[i])]
    \o << command("echo", NoPath, << >>), command("echo", NoPath, << >>),
          command("echo", NoPath, << >>), command("echo", NoPath, << >>) >>

\* lines 1296-1361 of run: write _cleanup_empty_dirs.sh
WriteCleanup ==
    /\ pc = "write"
    /\ lines' = cleanupLines
    /\ pc' = "done"
    /\ UNCHANGED << tree, emptyDirs, noAudioDirs, besidesScanner >>

NextEmptyDirs == CollectDirs \/ WriteCleanup

SpecEmptyDirs == InitEmptyDirs /\ [][NextEmptyDirs]_vars

----------------------------------------------------------------------------
(* The title normalisers: getSongKey of hot_songs.js and of              *)
(* find_orphan_lrcs.js, and the title part of the detector's key         *)

\* TRAD_TO_SIMP of hot_songs.js
TRAD_TO_SIMP_hot_songs ==
    "u9F4A" :> "u9F50" @@ "u5B78" :> "u5B66" @@ "u83EF" :> "u534E" @@ "u570B" :> "u56FD"
    @@ "u611B" :> "u7231" @@ "u6200" :> "u604B" @@ "u5922" :> "u68A6" @@ "u98A8" :> "u98CE"
    @@ "u96F2" :> "u4E91" @@ "u6642" :> "u65F6" @@ "u9593" :> "u95F4" @@ "u6771" :> "u4E1C"
    @@ "u8ECA" :> "u8F66" @@ "u99AC" :> "u9A6C" @@ "u9CE5" :> "u9E1F" @@ "u9B5A" :> "u9C7C"
    @@ "u9577" :> "u957F" @@ "u9580" :> "u95E8" @@ "u958B" :> "u5F00" @@ "u95DC" :> "u5173"
    @@ "u807D" :> "u542C" @@ "u8AAA" :> "u8BF4" @@ "u8A71" :> "u8BDD" @@ "u8A9E" :> "u8BED"
    @@ "u7D05" :> "u7EA2" @@ "u7DA0" :> "u7EFF" @@ "u85CD" :> "u84DD" @@ "u9EC3" :> "u9EC4"
    @@ "u982D" :> "u5934" @@ "u81C9" :> "u8138" @@ "u9AD4" :> "u4F53" @@ "u767C" :> "u53D1"
    @@ "u7121" :> "u65E0" @@ "u5F9E" :> "u4ECE" @@ "u4F86" :> "u6765" @@ "u904E" :> "u8FC7"
    @@ "u88E1" :> "u91CC" @@ "u8449" :> "u53F6" @@ "u96FB" :> "u7535" @@ "u8166" :> "u8111"
    @@ "u6A5F" :> "u673A" @@ "u66F8" :> "u4E66" @@ "u756B" :> "u753B" @@ "u8A69" :> "u8BD7"
    @@ "u8072" :> "u58F0" @@ "u97FF" :> "u54CD" @@ "u6A02" :> "u4E50" @@ "u898B" :> "u89C1"
    @@ "u89AA" :> "u4EB2" @@ "u5C0D" :> "u5BF9" @@ "u9019" :> "u8FD9" @@ "u8AB0" :> "u8C01"
    @@ "u8B93" :> "u8BA9" @@ "u9084" :> "u8FD8" @@ "u5F8C" :> "u540E" @@ "u96A8" :> "u968F"
    @@ "u5CF6" :> "u5C9B" @@ "u8C93" :> "u732B" @@ "u72D7" :> "u72D7" @@ "u9ED1" :> "u9ED1"
    @@ "u767D" :> "u767D" @@ "u9752" :> "u9752" @@ "u7D2B" :> "u7D2B"

\* toSimplified of hot_songs.js
toSimplified_hot_songs(s) ==
    [i \in 1..Len(s) |->
        IF s[i] \in DOMAIN TRAD_TO_SIMP_hot_songs THEN TRAD_TO_SIMP_hot_songs[s[i]]
        ELSE s[i]]

\* converter = OpenCC.Converter({ from: 'hk', to: 'cn' }) of find_orphan_lrcs.js:
\* the library folds the traditional characters of the model (u570B, u8A9E) as
\* the tables do
converter(s) == toSimplified_hot_songs(s)

\* result.replace(/\s*\[[^\]]*\]\s*$/i, '') with opens = {"["}, closes = {"]"}, and
\* result.replace(suffixPattern, '') with the round brackets, where
\* suffixPattern = /\s*[(（]\s*([...]*)[^)）]*[)）]\s*$/i accepts any content
\* without a closing bracket: the leftmost opening bracket whose first closing
\* bracket is the last non-blank character goes, with the blanks around
replaceTrailingBlock(s, opens, closes) ==
    LET q  == Len(s) - RunBefore(s, Len(s) + 1, WhiteSpace)
        ok(p) == s[p] \in opens /\ \A j \in (p + 1)..(q - 1) : s[j] \notin closes
        ps == IF q >= 2 /\ s[q] \in closes THEN { p \in 1..(q - 1) : ok(p) } ELSE {}
    IN  IF ps = {} THEN s
        ELSE LET p == CHOOSE x \in ps : \A y \in ps : x <= y
             IN  SubSeq(s, 1, p - RunBefore(s, p, WhiteSpace) - 1)

\* the do ... while (result !== prev) of removeDescriptiveSuffix of hot_songs.js
RECURSIVE trackSuffixLoop(_)
trackSuffixLoop(s) ==
    LET r == replaceTrailingBlock(replaceTrailingBlock(s, {"["}, {"]"}),
                                  OpenParens, CloseParens)
    IN  IF r = s THEN s ELSE trackSuffixLoop(r)

\* removeDescriptiveSuffix of hot_songs.js, find_orphan_lrcs.js, test_song_key.js
removeDescriptiveSuffix_hot_songs(name) == trim(trackSuffixLoop(name))

\* getSongKey(trackName) of hot_songs.js
getSongKey_hot_songs(name) ==
    stripSpaces(toLowerCase(toSimplified_hot_songs(removeDescriptiveSuffix_hot_songs(name))))

\* the characters of /[-–—·]/
Dashes == {"-", "u2013", "u2014", "u00B7"}

\* getSongKey(trackName) of find_orphan_lrcs.js
getSongKey_find_orphan_lrcs(name) ==
    SelectSeq(stripSpaces(toLowerCase(converter(removeDescriptiveSuffix_hot_songs(name)))),
              LAMBDA c : c \notin Dashes)

\* what the detector makes of a title: removeDescriptiveSuffix in parseSongInfo,
\* then the normTitle of getSongKey
normTitle(title) ==
    stripSpaces(toLowerCase(normalizeRomanNumerals(toSimplified(
        removeDescriptiveSuffix(title)))))

\* the pieces the normalised strings are made of
NormalizeTokens ==
    { << "a" >>, << " " >>, << "(" >>, << ")" >>, << "[" >>, << "]" >>, << "-" >>,
      << "I" >>, << "u570B", "u8A9E" >> }

\* the most pieces of a normalised string
MaxTokens == 3

RECURSIVE concat(_)
concat(ss) == IF ss = << >> THEN << >> ELSE Head(ss) \o concat(Tail(ss))

TrackNames ==
    { concat(ts) : ts \in UNION { [1..n -> NormalizeTokens] : n \in 0..MaxTokens } }

InitNormalize ==
    /\ trackName \in TrackNames
    /\ songKeys = NoKeys
    /\ result = << >>
    /\ prev = undefined
    /\ pc = "normalize"
    /\ lines = << >>
    /\ IdleBesides("normalize")

\* the string a normaliser is called on next: trackName, then its own result
nextInput(results) == IF results = << >> THEN trackName ELSE results[Len(results)]

\* the detector's title normalisation, on trackName and then on its own result
NormalizeEnhanced ==
    /\ pc = "normalize"
    /\ Len(songKeys.enhanced) < 2
    /\ songKeys' = [songKeys EXCEPT
                      !.enhanced = Append(@, normTitle(nextInput(songKeys.enhanced)))]
    /\ UNCHANGED << trackName, result, prev, pc, lines, besidesNormalize >>

\* getSongKey of hot_songs.js, on trackName and then on its own result
NormalizeTrack ==
    /\ pc = "normalize"
    /\ Len(songKeys.track) < 2
    /\ songKeys' = [songKeys EXCEPT
                      !.track = Append(@, getSongKey_hot_songs(nextInput(songKeys.track)))]
    /\ UNCHANGED << trackName, result, prev, pc, lines, besidesNormalize >>

\* getSongKey of find_orphan_lrcs.js, on trackName and then on its own result
NormalizeOrphan ==
    /\ pc = "normalize"
    /\ Len(songKeys.orphan) < 2
    /\ songKeys' = [songKeys EXCEPT
                      !.orphan = Append(@, getSongKey_find_orphan_lrcs(
                                              nextInput(songKeys.orphan)))]
    /\ UNCHANGED << trackName, result, prev, pc, lines, besidesNormalize >>

NextNormalize == NormalizeEnhanced \/ NormalizeTrack \/ NormalizeOrphan

SpecNormalize == InitNormalize /\ [][NextNormalize]_vars

----------------------------------------------------------------------------
(* The detector on named files: bracketed and dated titles, hidden and    *)
(* underscore entries                                                      *)

Beyond == << "B", "e", "y", "o", "n", "d" >>

\* the files a named tree is drawn from, in directory order
NamedMenu ==
    << [dir |-> Root,
        name |-> Beyond \o << " ", "-", " ", "u6D77", "u9614", "u5929", "u7A7A",
                              ".", "m", "p", "3" >>],
       [dir |-> Root,
        name |-> << "u6D77", "u9614", "u5929", "u7A7A", " ", "[", "L", "i", "v", "e", "]",
                    ".", "f", "l", "a", "c" >>],
       [dir |-> Root,
        name |-> << "u8D81", "u65E9", " ", "(", "2", "0", "0", "5", "u7248", ")",
                    ".", "m", "p", "3" >>],
       [dir |-> Root, name |-> << "u8D81", "u65E9", ".", "f", "l", "a", "c" >>],
       [dir |-> Root, name |-> << "s", ".", "m", "p", "3" >>],
       [dir |-> Root, name |-> << "_", "s", ".", "m", "p", "3" >>],
       [dir |-> Root, name |-> << ".", "s", ".", "m", "p", "3" >>],
       [dir |-> << << "_", "t" >> >>, name |-> << "s", ".", "m", "p", "3" >>],
       [dir |-> << << ".", "g" >> >>, name |-> << "s", ".", "m", "p", "3" >>] >>

\* process.argv[2] of the named trees
NamedRoots == { << "A" >>, Beyond }

\* the state before run() on a tree of at most MaxFiles named files
InitNamed ==
    /\ \E t \in UNION { [1..n -> 1..Len(NamedMenu)] : n \in 0..MaxFiles } :
         \E c \in [1..Len(t) -> Contents] :
            /\ \A i \in 1..(Len(t) - 1) : t[i] < t[i + 1]
            /\ \A i \in 1..Len(t) :
                  c[i].bytes = "y" => \E j \in 1..(i - 1) : c[j].bytes = "x"
            /\ disk = [i \in 1..Len(t) |-> [path |-> NamedMenu[t[i]], content |-> c[i]]]
    /\ dirArtist \in NamedRoots
    /\ pc = "scan"
    /\ lrcIndex = {}
    /\ fileInfos = << >>
    /\ hashed = {}
    /\ unreadable = {}
    /\ exactDuplicates = << >>
    /\ semanticDuplicates = << >>
    /\ lines = << >>
    /\ IdleBesides("detector")

SpecNamed == InitNamed /\ [][Next]_vars

----------------------------------------------------------------------------
(* clean_directory_duplicates.js and check_collection_duplicates.js, with  *)
(* findFiles, parseSongInfo and getScore of check_duplicates_utils         *)

\* parts[1] of s.split(sep) when sep occurs in s: what lies between the first
\* and the second occurrence
secondPart(s, sep) ==
    LET rest == Tail_(s, indexOf(s, sep) + Len(sep))
    IN  IF includes(rest, sep) THEN SubSeq(rest, 1, indexOf(rest, sep) - 1) ELSE rest

\* the smallest position from to Len(s) - 2 that holds an opening bracket, or 0
firstOpen(s, from) ==
    LET ps == { p \in from..(Len(s) - 2) : s[p] \in OpenParens }
    IN  IF ps = {} THEN 0 ELSE CHOOSE p \in ps : \A q \in ps : p <= q

\* nameNoExt.replace(/^(\d+[\.\-]?\s+)/, '').replace(/^\d+\./, '') of
\* check_duplicates_utils
removeTrackNumber_utils(base) ==
    LET d == RunFrom(base, 1, Digits)
        o == IF d + 1 <= Len(base) /\ base[d + 1] \in {".", "-"} THEN 1 ELSE 0
        w == RunFrom(base, d + o + 1, WhiteSpace)
    IN  stripNumberDot(IF d >= 1 /\ w >= 1 THEN Tail_(base, d + o + w + 1) ELSE base)

\* the three patterns of parseSongInfo of check_duplicates_utils: "artist - title",
\* "artist-title", and "title(artist)" by /^(.+?)[(（](.+?)[)）]$/
splitName_utils(nameNoExt) ==
    LET n == Len(nameNoExt)
        spaced == << " ", "-", " " >>
        p == firstOpen(nameNoExt, 2)
    IN  IF includes(nameNoExt, spaced)
        THEN [artist |-> trim(SubSeq(nameNoExt, 1, indexOf(nameNoExt, spaced) - 1)),
              title  |-> trim(secondPart(nameNoExt, spaced))]
        ELSE IF includes(nameNoExt, << "-" >>)
        THEN [artist |-> trim(SubSeq(nameNoExt, 1, indexOf(nameNoExt, << "-" >>) - 1)),
              title  |-> trim(secondPart(nameNoExt, << "-" >>))]
        ELSE IF /\ \E i \in 1..n : nameNoExt[i] \in OpenParens
                /\ \E i \in 1..n : nameNoExt[i] \in CloseParens
                /\ p # 0 /\ nameNoExt[n] \in CloseParens
        THEN [artist |-> trim(SubSeq(nameNoExt, p + 1, n - 1)),
              title  |-> trim(SubSeq(nameNoExt, 1, p - 1))]
        ELSE [artist |-> << >>, title |-> << >>]

\* title.replace(suffixRegex, '').trim() when suffixRegex.test(title), with
\* suffixRegex = /[(（](Live|Mix|Remix|Cover|DJ|...)[)）]$/i
stripSuffix_utils(title) ==
    LET words == { << "L", "i", "v", "e" >>, << "M", "i", "x" >>,
                   << "R", "e", "m", "i", "x" >>, << "C", "o", "v", "e", "r" >>,
                   << "D", "J" >>, << "u4F34", "u594F" >>,
                   << "u6F14", "u5531", "u4F1A" >>, << "u7248" >> }
        ends(k) == /\ Len(title) >= Len(k) + 2
                   /\ title[Len(title)] \in CloseParens
                   /\ title[Len(title) - Len(k) - 1] \in OpenParens
                   /\ MatchAtNoCase(title, Len(title) - Len(k), k)
        found == { k \in words : ends(k) }
    IN  IF found = {} THEN title
        ELSE trim(SubSeq(title, 1, Len(title) - Len(CHOOSE k \in found : TRUE) - 2))

\* parseSongInfo(fileName) of check_duplicates_utils, called without
\* defaultArtist: [artist, title]
parseSongInfo_utils(fileName) ==
    LET nameNoExt == removeTrackNumber_utils(basenameNoExt(fileName))
        raw == splitName_utils(nameNoExt)
    IN  [artist |-> IF raw.artist = << >> \/ toLowerCase(raw.artist) = toLowerCase(Unknown)
                    THEN Unknown ELSE raw.artist,
         title  |-> stripSuffix_utils(IF raw.title = << >> THEN nameNoExt ELSE raw.title)]

\* nameNoExt.match(/^(\d+\s+)?(.+?)[(（](.+?)[)）]$/) of check_collection_duplicates.js:
\* the title starts behind the number and the blanks when an opening bracket
\* follows there, else at the start; without a match, artist and title are empty
matchTitleArtist(nameNoExt) ==
    LET n == Len(nameNoExt)
        d == RunFrom(nameNoExt, 1, Digits)
        w == IF d >= 1 THEN RunFrom(nameNoExt, d + 1, WhiteSpace) ELSE 0
        feasible == { b \in { d + k + 1 : k \in 1..w } \cup { 1 } :
                         firstOpen(nameNoExt, b + 1) # 0 }
    IN  IF n >= 1 /\ nameNoExt[n] \in CloseParens /\ feasible # {}
        THEN LET b == CHOOSE x \in feasible : \A y \in feasible : y <= x
             IN  [artist |-> trim(SubSeq(nameNoExt, firstOpen(nameNoExt, b + 1) + 1, n - 1)),
                  title  |-> trim(SubSeq(nameNoExt, b, firstOpen(nameNoExt, b + 1) - 1))]
        ELSE [artist |-> << >>, title |-> << >>]

\* the split at the first bracket when the pattern does not match: the title
\* without /^\d+\s+/, the artist without the first closing bracket
splitAtBracket(nameNoExt) ==
    LET p1 == indexOf(nameNoExt, << "uFF08" >>)
        q  == IF p1 # 0 THEN p1 ELSE indexOf(nameNoExt, << "(" >>)
        head == trim(SubSeq(nameNoExt, 1, q - 1))
        hd == RunFrom(head, 1, Digits)
        hw == RunFrom(head, hd + 1, WhiteSpace)
        rest == Tail_(nameNoExt, q + 1)
        cs == { i \in 1..Len(rest) : rest[i] \in CloseParens }
    IN  [artist |-> trim(IF cs = {} THEN rest
                         ELSE LET c == CHOOSE i \in cs : \A j \in cs : i <= j
                              IN  SubSeq(rest, 1, c - 1) \o Tail_(rest, c + 1)),
         title  |-> IF hd >= 1 /\ hw >= 1 THEN Tail_(head, hd + hw + 1) ELSE head]

\* parseSongInfo(fileName) of check_collection_duplicates.js: [artist, title]
parseSongInfo_collection(fileName) ==
    LET nameNoExt == basenameNoExt(fileName)
        raw ==
            IF includes(nameNoExt, << "-" >>)
            THEN [artist |-> trim(SubSeq(nameNoExt, 1, indexOf(nameNoExt, << "-" >>) - 1)),
                  title  |-> trim(secondPart(nameNoExt, << "-" >>))]
            ELSE IF /\ \E i \in 1..Len(nameNoExt) : nameNoExt[i] \in OpenParens
                    /\ \E i \in 1..Len(nameNoExt) : nameNoExt[i] \in CloseParens
            THEN IF matchTitleArtist(nameNoExt).title # << >>
                    \/ matchTitleArtist(nameNoExt).artist # << >>
                 THEN matchTitleArtist(nameNoExt)
                 ELSE splitAtBracket(nameNoExt)
            ELSE [artist |-> << >>, title |-> nameNoExt]
    IN  [artist |-> IF raw.artist = << >> THEN Unknown ELSE raw.artist,
         title  |-> IF raw.title = << >> THEN nameNoExt ELSE raw.title]

\* songMapKey that passes no file over
songMapKeyAlways(info, limit) ==
    stripSpaces(toLowerCase(info.artist)) \o << "|" >> \o stripSpaces(toLowerCase(info.title))

\* the key of the songMap of both tools, << >> for a file that is passed over:
\* artist|title with an artist, unknown|title for a title longer than limit
songMapKey(info, limit) ==
    LET cleanArtist == stripSpaces(toLowerCase(info.artist))
        cleanTitle  == stripSpaces(toLowerCase(info.title))
    IN  IF cleanArtist # << >> /\ cleanArtist # toLowerCase(Unknown)
        THEN cleanArtist \o << "|" >> \o cleanTitle
        ELSE IF Len(cleanTitle) > limit
             THEN toLowerCase(Unknown) \o << "|" >> \o cleanTitle
             ELSE << >>

\* moveFileToTrash(filePath) on the files d: renameSync takes the file out of the
\* scanned tree, and with it the file at filePath.replace(/\.[^.]+$/, '.lrc'); a
\* file that is no longer there makes renameSync throw, and nothing is moved
\* (the directories of the model have no dot in their names)
moveFileToTrash(d, filePath) ==
    LET dot == lastIndexOfChar(filePath.name, ".")
        lrcPath == [dir  |-> filePath.dir,
                    name |-> IF dot = 0 \/ dot = Len(filePath.name) THEN filePath.name
                             ELSE SubSeq(filePath.name, 1, dot - 1)
                                     \o << ".", "l", "r", "c" >>]
    IN  IF \E i \in 1..Len(d) : d[i].path = filePath
        THEN SelectSeq(d, LAMBDA f : f.path # filePath /\ f.path # lrcPath)
        ELSE d

\* losers.forEach(loser => moveFileToTrash(loser.path))
RECURSIVE moveLosers(_, _)
moveLosers(d, losers) ==
    IF losers = << >> THEN d
    ELSE moveLosers(moveFileToTrash(d, Head(losers).path), Tail(losers))

\* sameFiles.sort((a, b) => getScore(b) - getScore(a)) with getScore of
\* check_duplicates_utils; the sort is stable
RECURSIVE sortByScoreUtils(_)
sortByScoreUtils(files) ==
    IF files = << >> THEN << >>
    ELSE LET sorted == sortByScoreUtils(SubSeq(files, 1, Len(files) - 1))
             f == files[Len(files)]
             k == Cardinality({ i \in 1..Len(sorted) :
                                   getScoreUtils(sorted[i]) >= getScoreUtils(f) })
         IN  SubSeq(sorted, 1, k) \o << f >> \o SubSeq(sorted, k + 1, Len(sorted))

\* the files a tree of the two tools is drawn from, in directory order
ToolMenu ==
    << [dir |-> Root, name |-> << "A", " ", "-", " ", "s", ".", "m", "p", "3" >>],
       [dir |-> Root, name |-> << "A", " ", "-", " ", "s", ".", "l", "r", "c" >>],
       [dir |-> Root, name |-> << "s", "(", "A", ")", ".", "f", "l", "a", "c" >>],
       [dir |-> Root, name |-> << "l", "o", "v", "e", ".", "m", "p", "3" >>],
       [dir |-> Root, name |-> << "l", "o", "v", "e", ".", "f", "l", "a", "c" >>],
       [dir |-> Root, name |-> << "0", "5", ".", "m", "p", "3" >>],
       [dir |-> Root, name |-> << "0", "5", ".", "f", "l", "a", "c" >>],
       [dir |-> Root, name |-> << ".", "s", ".", "m", "p", "3" >>] >>

\* the state before run() of either tool on a tree of at most MaxFiles files
InitTools ==
    /\ \E t \in UNION { [1..n -> 1..Len(ToolMenu)] : n \in 0..MaxFiles } :
         \E c \in [1..Len(t) -> Contents] :
            /\ \A i \in 1..(Len(t) - 1) : t[i] < t[i + 1]
            /\ \A i \in 1..Len(t) : isLrc(ToolMenu[t[i]].name) => c[i].bytes = "none"
            /\ \A i \in 1..Len(t) :
                  c[i].bytes = "y" => \E j \in 1..(i - 1) : c[j].bytes = "x"
            /\ disk = [i \in 1..Len(t) |->
                          [path |-> ToolMenu[t[i]],
                           content |-> IF isLrc(ToolMenu[t[i]].name)
                                       THEN LyricContent ELSE c[i]]]
    /\ pc \in {"clean_scan", "collection_exact"}
    /\ dirArtist = << >>
    /\ lrcIndex = {}
    /\ fileInfos = << >>
    /\ hashed = {}
    /\ unreadable = {}
    /\ exactDuplicates = << >>
    /\ semanticDuplicates = << >>
    /\ lines = << >>
    /\ IdleBesides("detector")

\* one record per file of findFiles(targetDir), which keeps every entry that
\* findAllFiles keeps: path, size and name, and with them what run makes of the
\* name when it fills songMap
fileInfo_tools(f, info, key) ==
    [path |-> f.path, size |-> f.content.size, name |-> f.path.name,
     artist |-> info.artist, title |-> info.title, key |-> key]

\* the file as clean_directory_duplicates.js sees it (run lines 78-82, 140-155)
fileInfo_clean(f) ==
    fileInfo_tools(f, parseSongInfo_utils(f.path.name),
                   songMapKey(parseSongInfo_utils(f.path.name), 3))

\* the file as check_collection_duplicates.js sees it (run lines 168-192): only
\* an audio file with a title gets a key
fileInfo_collection(f) ==
    fileInfo_tools(f, parseSongInfo_collection(f.path.name),
                   IF /\ isAudio(f.path.name)
                      /\ parseSongInfo_collection(f.path.name).title # << >>
                      /\ parseSongInfo_collection(f.path.name).title # Unknown
                   THEN songMapKey(parseSongInfo_collection(f.path.name), 4)
                   ELSE << >>)

\* clean_directory_duplicates.js, run lines 57-85: scan; with fewer than two
\* files there is nothing to clean
CleanScan ==
    /\ pc = "clean_scan"
    /\ IF Len(findAllFiles) < 2
       THEN pc' = "clean_done" /\ fileInfos' = fileInfos
       ELSE /\ pc' = "clean_exact"
            /\ fileInfos' = [i \in 1..Len(findAllFiles) |-> fileInfo_clean(findAllFiles[i])]
    /\ UNCHANGED << disk, dirArtist, lrcIndex, hashed, unreadable, exactDuplicates,
                    semanticDuplicates, lines, besidesDetector >>

\* the loop over sizeMap of clean_directory_duplicates.js on the files d: the
\* files left and the groups found; getFileHash returns null for a file that an
\* earlier move took along
RECURSIVE cleanExact(_, _)
cleanExact(d, groups) ==
    IF groups = << >> THEN [disk |-> d, found |-> << >>]
    ELSE LET group    == Head(groups)
             readable == SelectSeq(group.files,
                            LAMBDA f : \E i \in 1..Len(d) : d[i].path = f.path)
             hashMap  == groupByKey(readable,
                            [i \in 1..Len(readable) |-> md5(contentAt(readable[i].path))])
             same     == SelectSeq(hashMap, LAMBDA h : Len(h.files) > 1)
             sorted   == [i \in 1..Len(same) |->
                             [hash |-> same[i].key, size |-> group.key,
                              files |-> sortByScoreUtils(same[i].files)]]
             losers   == flatten([i \in 1..Len(sorted) |-> Tail(sorted[i].files)])
             rest     == cleanExact(moveLosers(d, losers), Tail(groups))
         IN  [disk |-> rest.disk, found |-> sorted \o rest.found]

\* the entries of sizeMap
sizeMapOf(files) == groupByKey(files, [i \in 1..Len(files) |-> files[i].size])

\* run lines 87-128: hash the files that share a size above zero, keep the best
\* of every group of equal bytes and move the others to the trash directory
CleanExact ==
    /\ pc = "clean_exact"
    /\ hashed' = pathsOf(SelectSeq(sizeMapOf(fileInfos),
                                   LAMBDA g : ~(Len(g.files) < 2 \/ g.key = 0)))
    /\ \E cleaned \in { cleanExact(disk, SelectSeq(sizeMapOf(fileInfos),
                                     LAMBDA g : ~(Len(g.files) < 2 \/ g.key = 0))) } :
          /\ exactDuplicates' = cleaned.found
          /\ disk' = cleaned.disk
    /\ pc' = "clean_semantic"
    /\ UNCHANGED << dirArtist, lrcIndex, fileInfos, unreadable, semanticDuplicates, lines,
                    besidesDetector >>

\* the groups of two and more files of one key, in the order of songMap
songGroups(files) ==
    SelectSeq(groupByKey(files, [i \in 1..Len(files) |-> files[i].key]),
              LAMBDA g : Len(g.files) > 1)

\* the groups of the files that have a key and are still there, each sorted by
\* score
sortedSongGroups ==
    LET groups == songGroups(SelectSeq(fileInfos,
                     LAMBDA f : f.key # << >> /\ \E i \in 1..Len(disk) : disk[i].path = f.path))
    IN  [g \in 1..Len(groups) |->
            [key |-> groups[g].key, files |-> sortByScoreUtils(groups[g].files)]]

\* run lines 130-187: group the files still there by artist and title, keep the
\* best of every group and move the others to the trash directory
CleanSemantic ==
    /\ pc = "clean_semantic"
    /\ semanticDuplicates' = sortedSongGroups
    /\ disk' = moveLosers(disk,
                  flatten([g \in 1..Len(semanticDuplicates') |->
                              Tail(semanticDuplicates'[g].files)]))
    /\ pc' = "clean_done"
    /\ UNCHANGED << dirArtist, lrcIndex, fileInfos, hashed, unreadable, exactDuplicates,
                    lines, besidesDetector >>

\* the groups of equal bytes of one entry of sizeMap
hashGroups(group) ==
    LET hashMap == groupByKey(group.files,
                      [i \in 1..Len(group.files) |-> md5(contentAt(group.files[i].path))])
        same    == SelectSeq(hashMap, LAMBDA h : Len(h.files) > 1)
    IN  [i \in 1..Len(same) |->
            [hash |-> same[i].key, size |-> group.key, files |-> same[i].files]]

\* check_collection_duplicates.js, run lines 108-149: hash the files that share
\* a size and report the groups of equal bytes
CollectionExact ==
    /\ pc = "collection_exact"
    /\ fileInfos' = [i \in 1..Len(findAllFiles) |-> fileInfo_collection(findAllFiles[i])]
    /\ hashed' = pathsOf(SelectSeq(sizeMapOf(fileInfos'), LAMBDA g : Len(g.files) > 1))
    /\ exactDuplicates' =
          flatten([g \in 1..Len(sizeMapOf(fileInfos')) |->
                      IF Len(sizeMapOf(fileInfos')[g].files) > 1
                      THEN hashGroups(sizeMapOf(fileInfos')[g]) ELSE << >>])
    /\ pc' = "collection_semantic"
    /\ UNCHANGED << disk, dirArtist, lrcIndex, unreadable, semanticDuplicates, lines,
                    besidesDetector >>

\* run lines 161-227: group the audio files by artist and title and report the
\* groups of two and more
CollectionSemantic ==
    /\ pc = "collection_semantic"
    /\ semanticDuplicates' = songGroups(SelectSeq(fileInfos, LAMBDA f : f.key # << >>))
    /\ pc' = "collection_done"
    /\ UNCHANGED << disk, dirArtist, lrcIndex, fileInfos, hashed, unreadable,
                    exactDuplicates, lines, besidesDetector >>

NextTools ==
    CleanScan \/ CleanExact \/ CleanSemantic \/ CollectionExact \/ CollectionSemantic

SpecTools == InitTools /\ [][NextTools]_vars

----------------------------------------------------------------------------
(* findOrphanLrcs of find_orphan_lrcs.js, and its older form in part_013   *)

\* AUDIO_EXTENSIONS of find_orphan_lrcs.js (audioExts in part_013), without the dot
AUDIO_EXTENSIONS_find_orphan_lrcs ==
    AUDIO_EXTENSIONS \cup { << "d", "f", "f" >>, << "d", "s", "f" >>,
                            << "o", "g", "g" >>, << "a", "a", "c" >> }

\* path.basename(item, ext): item without ext when item ends with exactly ext
\* and is longer than ext
basenameWithout(item, ext) ==
    IF Len(ext) > 0 /\ Len(item) > Len(ext) /\ MatchAt(item, Len(item) - Len(ext) + 1, ext)
    THEN SubSeq(item, 1, Len(item) - Len(ext))
    ELSE item

\* the classification of one directory entry by findOrphanLrcs: its extension in
\* lower case and the base name the comparison uses. find_orphan_lrcs.js strips
\* the lower-case extension from the name (lowered = TRUE), part_013 the
\* extension as it is written
classify(item, lowered) ==
    LET ext == toLowerCase(extname(item))
    IN  [ext      |-> ext,
         basename |-> basenameWithout(item, IF lowered THEN ext ELSE extname(item))]

\* findOrphanLrcs(dir) on the whole tree: the lyric files, in enumeration order,
\* whose directory has no audio file of the same base name in lower case;
\* entries with a leading character of skip are passed over with all below them
findOrphanLrcs(skip, lowered) ==
    LET seen(f) == /\ f.path.name[1] \notin skip
                   /\ \A i \in 1..Len(f.path.dir) : f.path.dir[i][1] \notin skip
        isLyric(f) == classify(f.path.name, lowered).ext = << ".", "l", "r", "c" >>
        isSong(f)  == \E e \in AUDIO_EXTENSIONS_find_orphan_lrcs :
                         classify(f.path.name, lowered).ext = << "." >> \o e
        audioBasenames(dir) ==
            { toLowerCase(classify(disk[i].path.name, lowered).basename) :
                 i \in { j \in 1..Len(disk) :
                            seen(disk[j]) /\ disk[j].path.dir = dir /\ isSong(disk[j]) } }
        orphan(f) == /\ seen(f) /\ isLyric(f)
                     /\ toLowerCase(classify(f.path.name, lowered).basename)
                           \notin audioBasenames(f.path.dir)
        found == SelectSeq(disk, orphan)
    IN  [i \in 1..Len(found) |-> found[i].path]

\* the files an orphan tree is drawn from, in directory order: root first
OrphanMenu ==
    << [dir |-> Root, name |-> << "s", ".", "m", "p", "3" >>],
       [dir |-> Root, name |-> << "S", ".", "M", "P", "3" >>],
       [dir |-> Root, name |-> << "s", ".", "l", "r", "c" >>],
       [dir |-> Root, name |-> << "s", ".", "L", "R", "C" >>],
       [dir |-> Root, name |-> << "t", ".", "l", "r", "c" >>],
       [dir |-> Root, name |-> << "_", "u", ".", "l", "r", "c" >>],
       [dir |-> SubDir, name |-> << "s", ".", "o", "g", "g" >>],
       [dir |-> SubDir, name |-> << "s", ".", "l", "r", "c" >>] >>

\* the state before findOrphanLrcs(targetDir) on a tree of at most MaxFiles files
InitOrphans ==
    /\ \E t \in UNION { [1..n -> 1..Len(OrphanMenu)] : n \in 0..MaxFiles } :
          /\ \A i \in 1..(Len(t) - 1) : t[i] < t[i + 1]
          /\ disk = [i \in 1..Len(t) |->
                        [path |-> OrphanMenu[t[i]],
                         content |-> IF hasExt(OrphanMenu[t[i]].name, << "l", "r", "c" >>)
                                     THEN LyricContent
                                     ELSE [bytes |-> "x", size |-> FileSize]]]
    /\ pc \in {"find_orphan_lrcs", "part_013"}
    /\ orphans = << >>
    /\ dirArtist = << >>
    /\ lrcIndex = {}
    /\ fileInfos = << >>
    /\ hashed = {}
    /\ unreadable = {}
    /\ exactDuplicates = << >>
    /\ semanticDuplicates = << >>
    /\ lines = << >>
    /\ ScannerIdle /\ ScoreIdle /\ NormalizeIdle

\* find_orphan_lrcs.js: the scan of run, which skips '.' and '_' entries
FindOrphanLrcs ==
    /\ pc = "find_orphan_lrcs"
    /\ orphans' = findOrphanLrcs({".", "_"}, TRUE)
    /\ pc' = "find_orphan_lrcs_done"
    /\ UNCHANGED << detectorVars, lines, scannerVars, scoreVars, normalizeVars >>

\* part_013: findOrphanLrcs(musicDir), which skips '.' entries
FindOrphanLrcs_part_013 ==
    /\ pc = "part_013"
    /\ orphans' = findOrphanLrcs({"."}, FALSE)
    /\ pc' = "part_013_done"
    /\ UNCHANGED << detectorVars, lines, scannerVars, scoreVars, normalizeVars >>

NextOrphans == FindOrphanLrcs \/ FindOrphanLrcs_part_013

SpecOrphans == InitOrphans /\ [][NextOrphans]_vars

----------------------------------------------------------------------------
(* bash _cleanup_duplicates.sh, and the detector run once more             *)

\* whether a file lies in the quarantine directory of the script
inTempDir(path) == path.dir # << >> /\ path.dir[1] = tempDir

\* mv "./${relPath}" "./${groupDir}/" 2>/dev/null || true on the files d: the
\* file takes its name into groupDir and replaces a file of that name there;
\* with no file at relPath the command fails and the script goes on
mv(d, src, groupDir) ==
    LET target == [dir |-> groupDir, name |-> src.name]
    IN  IF \E i \in 1..Len(d) : d[i].path = src
        THEN SelectSeq(d, LAMBDA f : f.path # src /\ f.path # target)
             \o << [path |-> target, content |-> contentAt(src)] >>
        ELSE d

\* the commands of the script from line n on, carried out on the files d
RECURSIVE runScript(_, _)
runScript(d, n) ==
    IF n > Len(lines) THEN d
    ELSE runScript(IF lines[n].cmd = "mv" THEN mv(d, lines[n].src, lines[n].dst)
                   ELSE d,
                   n + 1)

\* the user runs the script that run() wrote (lines 586-590 print how); the
\* process that wrote it has ended, the script stays where it is;
\* fs.readdirSync lists _duplicates_temp before or after the other entries
Execute ==
    /\ pc = "done"
    /\ lines # << >>
    /\ \A i \in 1..Len(disk) : ~inTempDir(disk[i].path)
    /\ \E moved \in { runScript(disk, 1) } :
         \E first \in BOOLEAN :
            LET quarantine == SelectSeq(moved, LAMBDA f : inTempDir(f.path))
                others     == SelectSeq(moved, LAMBDA f : ~inTempDir(f.path))
            IN  disk' = IF first THEN quarantine \o others ELSE others \o quarantine
    /\ pc' = "scan"
    /\ lrcIndex' = {}
    /\ fileInfos' = << >>
    /\ hashed' = {}
    /\ unreadable' = {}
    /\ exactDuplicates' = << >>
    /\ semanticDuplicates' = << >>
    /\ UNCHANGED << dirArtist, lines, besidesDetector >>

NextRerun == Next \/ Execute

SpecRerun == Init /\ [][NextRerun]_vars

----------------------------------------------------------------------------
(* The resolver of exact duplicates below /Volumes/CAR/MUSIC (part_014)    *)

\* trashDirName = '_duplicates_trash'
trashDirName ==
    << "_", "d", "u", "p", "l", "i", "c", "a", "t", "e", "s", "_", "t", "r", "a", "s", "h" >>

\* path.basename(targetDir)
targetName == << "M", "U", "S", "I", "C" >>

\* the files a tree of the resolver is drawn from, in the order of
\* a.path.localeCompare(b.path)
ResolveMenu ==
    << [dir |-> << << "a" >>, << "x" >> >>, name |-> << "s", ".", "m", "p", "3" >>],
       [dir |-> << << "a" >>, << "x" >> >>,
        name |-> << ".", "_", "s", ".", "m", "p", "3" >>],
       [dir |-> << << "b" >>, << "x" >> >>, name |-> << "s", ".", "m", "p", "3" >>],
       [dir |-> << << "c" >> >>, name |-> << "A", " ", "-", " ", "s", ".", "m", "p", "3" >>],
       [dir |-> << << "c" >> >>, name |-> << "s", ".", "m", "p", "3" >>],
       [dir |-> << << "c" >> >>, name |-> << "t", ".", "m", "p", "3" >>] >>

\* the state before the resolver runs on a tree of at most MaxFiles files
InitResolve ==
    /\ \E t \in UNION { [1..n -> 1..Len(ResolveMenu)] : n \in 0..MaxFiles } :
         \E c \in [1..Len(t) -> Contents] :
            /\ \A i \in 1..(Len(t) - 1) : t[i] < t[i + 1]
            /\ \A i \in 1..Len(t) :
                  c[i].bytes = "y" => \E j \in 1..(i - 1) : c[j].bytes = "x"
            /\ disk = [i \in 1..Len(t) |-> [path |-> ResolveMenu[t[i]], content |-> c[i]]]
    /\ pc = "resolve_scan"
    /\ dirArtist = << >>
    /\ lrcIndex = {}
    /\ fileInfos = << >>
    /\ hashed = {}
    /\ unreadable = {}
    /\ exactDuplicates = << >>
    /\ semanticDuplicates = << >>
    /\ lines = << >>
    /\ IdleBesides("detector")

\* scanDirectory(targetDir): every file but those named ._* and .DS_Store (a
\* directory of such a name hides what lies below it), as { path, size, name }
scanDirectory ==
    LET skipped(file) ==
            \/ startsWith(file, << ".", "_" >>)
            \/ file = << ".", "D", "S", "_", "S", "t", "o", "r", "e" >>
        kept == SelectSeq(disk, LAMBDA f :
                    /\ ~skipped(f.path.name)
                    /\ \A i \in 1..Len(f.path.dir) : ~skipped(f.path.dir[i]))
    IN  [i \in 1..Len(kept) |->
            [path |-> kept[i].path, size |-> kept[i].content.size,
             name |-> kept[i].path.name]]

\* getScore(file) of the resolver: the name alone counts
getScore_part_014(file) ==
    LET has(c) == \E i \in 1..Len(file.name) : file.name[i] = c
    IN  (IF includes(file.name, << " ", "-", " " >>) THEN 100 ELSE 0)
      + (IF has("u7231") /\ ~has("u611B") THEN 10 ELSE 0)
      + (IF has("u4EB2") /\ ~has("u89AA") THEN 10 ELSE 0)

\* the place of a path in the order of localeCompare
pathRank(path) == CHOOSE i \in 1..Len(ResolveMenu) : ResolveMenu[i] = path

\* group.sort(...): by score, the higher first, then by path
RECURSIVE sortResolve(_)
sortResolve(files) ==
    IF files = << >> THEN << >>
    ELSE LET sorted == sortResolve(SubSeq(files, 1, Len(files) - 1))
             f == files[Len(files)]
             ahead(g) ==
                \/ getScore_part_014(g) > getScore_part_014(f)
                \/ /\ getScore_part_014(g) = getScore_part_014(f)
                   /\ pathRank(g.path) <= pathRank(f.path)
             k == Cardinality({ i \in 1..Len(sorted) : ahead(sorted[i]) })
         IN  SubSeq(sorted, 1, k) \o << f >> \o SubSeq(sorted, k + 1, Len(sorted))

\* the entries of sizeMap the hash loop does not skip
resolveSizeGroups ==
    SelectSeq(sizeMapOf(fileInfos), LAMBDA g : ~(Len(g.files) < 2) /\ ~(g.key = 0))

\* the files in the order in which the loop calls calculateMD5 on them
hashOrder == flatten([g \in 1..Len(resolveSizeGroups) |-> resolveSizeGroups[g].files])

\* path.join(trashDir, `${parentDir}_${fileName}`) with
\* parentDir = path.basename(path.dirname(loser.path))
destPath(path) ==
    [dir  |-> << trashDirName >>,
     name |-> (IF path.dir = << >> THEN targetName ELSE path.dir[Len(path.dir)])
                 \o << "_" >> \o path.name]

\* fs.renameSync(loser.path, destPath) on the files d: a file at destPath is
\* replaced; with no file at loser.path the call throws and the error is logged
renameSync(d, src, dst) ==
    IF \E i \in 1..Len(d) : d[i].path = src
    THEN SelectSeq(d, LAMBDA f : f.path # src /\ f.path # dst)
         \o << [path |-> dst, content |-> contentAt(src)] >>
    ELSE d

\* losers.forEach(...) over a list of losers
RECURSIVE renameLosers(_, _)
renameLosers(d, losers) ==
    IF losers = << >> THEN d
    ELSE renameLosers(renameSync(d, Head(losers).path, destPath(Head(losers).path)),
                      Tail(losers))

\* lines 86-92: scan and fill sizeMap
ResolveScan ==
    /\ pc = "resolve_scan"
    /\ fileInfos' = scanDirectory
    /\ pc' = "resolve_hash"
    /\ UNCHANGED << disk, dirArtist, lrcIndex, hashed, unreadable, exactDuplicates,
                    semanticDuplicates, lines, besidesDetector >>

\* lines 94-110: hash the files that share a size above zero; calculateMD5 has
\* no catch and the loop has none, so the k-th call failing ends the process
\* with an uncaught exception (k = 0: no call fails)
ResolveHash ==
    /\ pc = "resolve_hash"
    /\ \E k \in 0..Len(hashOrder) :
          IF k = 0
          THEN /\ hashed' = pathsOf(resolveSizeGroups)
               /\ unreadable' = {}
               /\ exactDuplicates' =
                     flatten([g \in 1..Len(resolveSizeGroups) |->
                                 exactGroupsOf(resolveSizeGroups[g], {})])
               /\ pc' = "resolve_move"
          ELSE /\ hashed' = { hashOrder[i].path : i \in 1..k }
               /\ unreadable' = { hashOrder[k].path }
               /\ exactDuplicates' = << >>
               /\ pc' = "crashed"
    /\ UNCHANGED << disk, dirArtist, lrcIndex, fileInfos, semanticDuplicates, lines,
                    besidesDetector >>

\* lines 122-157: sort every group, keep its first file and rename the others
\* into the trash directory
ResolveMove ==
    /\ pc = "resolve_move"
    /\ exactDuplicates' =
          [g \in 1..Len(exactDuplicates) |->
              [exactDuplicates[g] EXCEPT !.files = sortResolve(@)]]
    /\ disk' = renameLosers(disk,
                  flatten([g \in 1..Len(exactDuplicates) |->
                              Tail(exactDuplicates'[g].files)]))
    /\ pc' = "resolve_done"
    /\ UNCHANGED << dirArtist, lrcIndex, fileInfos, hashed, unreadable,
                    semanticDuplicates, lines, besidesDetector >>

NextResolve == ResolveScan \/ ResolveHash \/ ResolveMove

SpecResolve == InitResolve /\ [][NextResolve]_vars

----------------------------------------------------------------------------
(* The loop of removeDescriptiveSuffix, one iteration at a time            *)

\* the pieces the names handed to removeDescriptiveSuffix are made of
SuffixTokens ==
    { << "a" >>, << " " >>, << "(" >>, << ")" >>,
      << "(", "L", "i", "v", "e", ")" >>,
      << "uFF08", "u7248", "uFF09" >>,
      << "(", "a", ")" >>,
      << "[", "a", "]" >> }

SuffixNames ==
    { concat(ts) : ts \in UNION { [1..n -> SuffixTokens] : n \in 0..MaxTokens } }

\* let result = name; let prev;
InitSuffix ==
    /\ trackName \in SuffixNames
    /\ songKeys = NoKeys
    /\ result = trackName
    /\ prev = undefined
    /\ pc \in {"check_duplicates_enhanced", "hot_songs", "find_orphan_lrcs"}
    /\ lines = << >>
    /\ IdleBesides("normalize")

\* the body of the loop in hot_songs.js and in find_orphan_lrcs.js: the
\* square-bracket replace, then the parenthesis replace
replaceBlocks(s) ==
    replaceTrailingBlock(replaceTrailingBlock(s, {"["}, {"]"}), OpenParens, CloseParens)

\* while (result !== prev) with the loop running on
continuesAlways(r, p) == TRUE

\* while (result !== prev)
continues(r, p) == r # p

\* one iteration of do { ... } while (result !== prev) in
\* check_duplicates_enhanced.js
SuffixIteration ==
    /\ pc = "check_duplicates_enhanced"
    /\ prev' = result
    /\ result' = replaceSuffix(result)
    /\ pc' = IF continues(result', prev') THEN pc ELSE "return"
    /\ UNCHANGED << trackName, songKeys, lines, besidesNormalize >>

\* one iteration of the loop in hot_songs.js and in find_orphan_lrcs.js
SuffixIteration_hot_songs ==
    /\ pc \in {"hot_songs", "find_orphan_lrcs"}
    /\ prev' = result
    /\ result' = replaceBlocks(result)
    /\ pc' = IF continues(result', prev') THEN pc ELSE "return"
    /\ UNCHANGED << trackName, songKeys, lines, besidesNormalize >>

\* return result.trim();
SuffixReturn ==
    /\ pc = "return"
    /\ result' = trim(result)
    /\ pc' = "returned"
    /\ UNCHANGED << trackName, songKeys, prev, lines, besidesNormalize >>

NextSuffix == SuffixIteration \/ SuffixIteration_hot_songs \/ SuffixReturn

\* the function runs until it returns
SpecSuffix == InitSuffix /\ [][NextSuffix]_vars /\ WF_vars(NextSuffix)

----------------------------------------------------------------------------
(* parseSongInfo of check_duplicates_enhanced.js and of                    *)
(* check_duplicates_utils on one file name                                 *)

\* the pieces the parsed names are made of
ParseTokens ==
    { << "A" >>, << "s" >>, << "1" >>, << " " >>, << "-" >>, << " ", "-", " " >> }

\* the most pieces of a parsed name
MaxPieces == 5

ParseNames ==
    { concat(ts) : ts \in UNION { [1..n -> ParseTokens] : n \in 1..MaxPieces } }

\* one audio file in a directory B, before its name is parsed
InitParse ==
    /\ \E n \in ParseNames :
          disk = << [path |-> [dir |-> Root, name |-> n \o << ".", "m", "p", "3" >>],
                     content |-> [bytes |-> "x", size |-> FileSize]] >>
    /\ dirArtist = << "B" >>
    /\ pc \in {"parse_enhanced", "parse_utils"}
    /\ lrcIndex = {}
    /\ fileInfos = << >>
    /\ hashed = {}
    /\ unreadable = {}
    /\ exactDuplicates = << >>
    /\ semanticDuplicates = << >>
    /\ lines = << >>
    /\ IdleBesides("detector")

\* check_duplicates_enhanced.js, run lines 359-372: the fileInfo of the file
ParseEnhanced ==
    /\ pc = "parse_enhanced"
    /\ fileInfos' = << fileInfoOf(disk[1], {}) >>
    /\ pc' = "parsed_enhanced"
    /\ UNCHANGED << disk, dirArtist, lrcIndex, hashed, unreadable, exactDuplicates,
                    semanticDuplicates, lines, besidesDetector >>

\* clean_directory_duplicates.js, run lines 78-82 and 140: the fileInfo of the
\* file with parseSongInfo(f.name) of check_duplicates_utils
ParseUtils ==
    /\ pc = "parse_utils"
    /\ fileInfos' = << fileInfo_clean(disk[1]) >>
    /\ pc' = "parsed_utils"
    /\ UNCHANGED << disk, dirArtist, lrcIndex, hashed, unreadable, exactDuplicates,
                    semanticDuplicates, lines, besidesDetector >>

NextParse == ParseEnhanced \/ ParseUtils

SpecParse == InitParse /\ [][NextParse]_vars

----------------------------------------------------------------------------
(* Properties of the duplicate detector                                    *)

\* every group of the plan with the directory the script gives it
allGroups ==
    [g \in 1..Len(exactDuplicates) |->
        [files |-> exactDuplicates[g].files, dir |-> exactGroupDir(g)]]
    \o [g \in 1..Len(semanticDuplicates) |->
        [files |-> semanticDuplicates[g].files,
         dir   |-> semanticGroupDir(g, semanticDuplicates[g].key)]]

onDisk(path) == \E i \in 1..Len(disk) : disk[i].path = path

\* the lyric file of an audio file: same directory, same base name, .lrc
lyricOf(path) ==
    [dir |-> path.dir, name |-> basenameNoExt(path.name) \o << ".", "l", "r", "c" >>]

isMove(line, src, dir) == line.cmd = "mv" /\ line.src = src /\ line.dst = dir

\* the members of a group behind its first
removableOf(group) == { group.files[i] : i \in 2..Len(group.files) }

\* C1: any two files of one Exact group have the same size in bytes and the
\* same content hash
C1_ExactGroupsAgree ==
    \A g \in 1..Len(exactDuplicates) :
       \A a, b \in Range(exactDuplicates[g].files) :
          /\ contentAt(a.path).size = contentAt(b.path).size
          /\ md5(contentAt(a.path)) = md5(contentAt(b.path))

\* an Exact group was formed while a third file of the same size, holding
\* other bytes, stayed out of it
C1_Witness ==
    /\ pc = "done"
    /\ \E g \in 1..Len(exactDuplicates) :
          \E f \in Range(fileInfos) :
             /\ f.size = exactDuplicates[g].size
             /\ f.path \notin pathsOf(<< exactDuplicates[g] >>)

\* the key the normaliser gives a file name
keyOfName(name) ==
    LET songInfo == parseSongInfo(name, dirArtist)
    IN  getSongKey(songInfo.artist, songInfo.title, dirArtist)

\* C2: any two files of one Semantic group have the same normalized key
\* (normalized artist | normalized title)
C2_SemanticKeysAgree ==
    pc = "done" =>
    \A g \in 1..Len(semanticDuplicates) :
       LET files == semanticDuplicates[g].files
           first == keyOfName(files[1].path.name)
       IN  \A i \in 2..Len(files) : keyOfName(files[i].path.name) = first

\* a Semantic group holds two files whose names differ before the extension
C2_Witness ==
    /\ pc = "done"
    /\ \E g \in 1..Len(semanticDuplicates) :
          \E a, b \in Range(semanticDuplicates[g].files) :
             basenameNoExt(a.path.name) # basenameNoExt(b.path.name)

C4_NeverDeletes ==
    LET movable == UNION { { f.path, lyricOf(f.path) } :
                             f \in UNION { removableOf(allGroups[k]) :
                                              k \in 1..Len(allGroups) } }
    IN  \A n \in 1..Len(lines) :
           LET line == lines[n]
               quarantine == Len(line.dst) > 1 /\ line.dst[1] = tempDir
           IN  \/ line.cmd \in {"set", "cd", "echo"}
               \/ line.cmd = "mkdir" /\ quarantine
               \/ line.cmd = "mv" /\ quarantine /\ line.src \in movable

\* the script holds a mkdir, the move of an audio file and the move of a lyric file
C4_Witness ==
    /\ pc = "done"
    /\ \E n \in 1..Len(lines) : lines[n].cmd = "mkdir"
    /\ \E n \in 1..Len(lines) : lines[n].cmd = "mv" /\ isAudio(lines[n].src.name)
    /\ \E n \in 1..Len(lines) : lines[n].cmd = "mv" /\ isLrc(lines[n].src.name)

\* whether a group holds the file at path
holds(group, path) == \E i \in 1..Len(group.files) : group.files[i].path = path

\* the groups of a list that hold the file at path
groupsHolding(groups, path) == { g \in 1..Len(groups) : holds(groups[g], path) }

C7_SameBytesSameExactGroup ==
    /\ pc \in {"semantic", "report", "emit", "done"} =>
          \A a, b \in 1..Len(fileInfos) :
             ( /\ a < b
               /\ fileInfos[a].size > 0
               /\ fileInfos[a].size = fileInfos[b].size
               /\ contentAt(fileInfos[a].path) = contentAt(fileInfos[b].path)
               /\ fileInfos[a].path \notin unreadable
               /\ fileInfos[b].path \notin unreadable )
             => /\ groupsHolding(exactDuplicates, fileInfos[a].path)
                      = groupsHolding(exactDuplicates, fileInfos[b].path)
                /\ Cardinality(groupsHolding(exactDuplicates, fileInfos[a].path)) = 1
    /\ pc = "done" =>
          \A g \in 1..Len(exactDuplicates) :
             \A i \in 2..Len(exactDuplicates[g].files) :
                \E n \in 1..Len(lines) :
                   isMove(lines[n], exactDuplicates[g].files[i].path, exactGroupDir(g))

\* two files of different names hold the same bytes, were hashed, and the
\* script was written
C7_Witness ==
    /\ pc = "done"
    /\ lines # << >>
    /\ \E a, b \in Range(fileInfos) :
          /\ a.name # b.name
          /\ a.size > 0
          /\ contentAt(a.path) = contentAt(b.path)
          /\ {a.path, b.path} \cap unreadable = {}

\* C8: in every group the members are in descending order of score; the script
\* leaves the first member where it is and moves every other member into the
\* directory of the group
C8_DescendingScoreFirstKept ==
    LET groups == allGroups
    IN  /\ pc \in {"emit", "done"} =>
              \A k \in 1..Len(groups) :
                 LET files == groups[k].files
                 IN  \A i, j \in 1..Len(files) :
                        i < j => getScore(files[i]) >= getScore(files[j])
        /\ pc = "done" =>
              \A k \in 1..Len(groups) :
                 /\ \A n \in 1..Len(lines) :
                       ~isMove(lines[n], groups[k].files[1].path, groups[k].dir)
                 /\ \A f \in removableOf(groups[k]) :
                       \E n \in 1..Len(lines) : isMove(lines[n], f.path, groups[k].dir)

\* the position of the file at path in the enumeration
enumerationIndex(path) == CHOOSE i \in 1..Len(fileInfos) : fileInfos[i].path = path

\* the sort changed the order of a group: its first member was enumerated after
\* its second and has the greater score
C8_Witness ==
    /\ pc = "done"
    /\ \E k \in 1..Len(allGroups) :
          LET files == allGroups[k].files
          IN  /\ enumerationIndex(files[1].path) > enumerationIndex(files[2].path)
              /\ getScore(files[1]) > getScore(files[2])

\* reCopy of check_duplicates.js: /(副本|copy|拷贝)/i
reCopy(name) ==
    \/ includes(toLowerCase(name), << "c", "o", "p", "y" >>)
    \/ includes(name, << "u526F", "u672C" >>)
    \/ includes(name, << "u62F7", "u8D1D" >>)

\* C10 as stated: of two members of equal score the one with the shorter name
\* ranks first; of equal lengths, the one without a copy mark; otherwise the
\* one enumerated first
C10_TieBreakByNameThenCopy ==
    pc = "done" =>
       \A k \in 1..Len(allGroups) :
          LET files == allGroups[k].files
          IN  \A i, j \in 1..Len(files) :
                 (i < j /\ getScore(files[i]) = getScore(files[j])) =>
                    /\ Len(files[i].name) <= Len(files[j].name)
                    /\ Len(files[i].name) = Len(files[j].name) =>
                          /\ reCopy(files[i].name) => reCopy(files[j].name)
                          /\ (reCopy(files[i].name) <=> reCopy(files[j].name)) =>
                                enumerationIndex(files[i].path)
                                   < enumerationIndex(files[j].path)

\* C10: members of equal score keep their enumeration order, whatever the
\* lengths of their names; the detector ranks by score alone
C10_TiesKeepEnumerationOrder ==
    pc \in {"emit", "done"} =>
       \A k \in 1..Len(exactDuplicates) + Len(semanticDuplicates) :
          LET files == IF k <= Len(exactDuplicates)
                       THEN exactDuplicates[k].files
                       ELSE semanticDuplicates[k - Len(exactDuplicates)].files
          IN  \A i, j \in 1..Len(files) :
                 (i < j /\ getScore(files[i]) = getScore(files[j])) =>
                    enumerationIndex(files[i].path) < enumerationIndex(files[j].path)

\* a group holds two members of equal score, the longer name first
C10_Witness ==
    /\ pc = "done"
    /\ \E k \in 1..Len(allGroups) :
          LET files == allGroups[k].files
          IN  \E i, j \in 1..Len(files) :
                 /\ i < j
                 /\ getScore(files[i]) = getScore(files[j])
                 /\ Len(files[i].name) > Len(files[j].name)

\* a command that deletes: rm of the shell, rd of the batch file
deletes(line) == line.cmd \in {"rm", "rd"}

\* C5: every command of a generated cleanup script that changes the file
\* system creates a directory or moves an item into a temporary directory (one
\* whose name starts with "_"); no command deletes a file or a directory
C5_ScriptsOnlyMove ==
    \A n \in 1..Len(lines) :
       /\ ~deletes(lines[n])
       /\ lines[n].cmd \in {"set", "cd", "echo", "mkdir", "mv"}
       /\ lines[n].cmd = "mv" =>
             Len(lines[n].dst) > 0 /\ startsWith(lines[n].dst[1], << "_" >>)

\* the score the claim gives a candidate, multiplied by MB: 100 for " - " in
\* the name, 20 for a name without a traditional-only character, the size in
\* megabytes, and 50, 40 or 30 for the extensions .flac, .ape and .wav
claimedScore(c) ==
    LET dash        == \E i \in 1..Len(c.name) : MatchAt(c.name, i, << " ", "-", " " >>)
        traditional == { i \in 1..Len(c.name) : c.name[i] \in TRAD_INDICATORS }
        extension   == toLowerCase(extname(c.name))
        bonus       == CASE extension = << ".", "f", "l", "a", "c" >> -> 50
                         [] extension = << ".", "a", "p", "e" >> -> 40
                         [] extension = << ".", "w", "a", "v" >> -> 30
                         [] OTHER -> 0
    IN  (IF dash THEN 100 ELSE 0) * MB
        + (IF traditional = {} THEN 20 ELSE 0) * MB
        + c.size
        + bonus * MB

\* the score check_duplicates_utils gives a candidate, multiplied by MB: 100
\* for " - " in the name, 10 for u7231 without u611B, 10 for u4EB2 without
\* u89AA, and the size in megabytes; no format bonus
utilsScore(c) ==
    LET chars == Range(c.name)
        dash  == \E i \in 1..Len(c.name) : MatchAt(c.name, i, << " ", "-", " " >>)
    IN  (IF dash THEN 100 ELSE 0) * MB
        + (IF "u7231" \in chars /\ "u611B" \notin chars THEN 10 ELSE 0) * MB
        + (IF "u4EB2" \in chars /\ "u89AA" \notin chars THEN 10 ELSE 0) * MB
        + c.size

\* C9 as stated: the score of a candidate, whichever getScore computes it, is
\* the sum of 100 for " - ", 20 for no traditional-only character, the size in
\* megabytes and the format bonus
C9_EveryScoreIsClaimed ==
    \A s \in scores.enhanced \cup scores.utils : s = claimedScore(candidate)

\* C9: getScore of check_duplicates_enhanced.js returns the sum of 100 for
\* " - ", 20 for no traditional-only character, the size in megabytes and the
\* format bonus 50/40/30 for .flac/.ape/.wav; getScore of check_duplicates_utils
\* returns 100 for " - ", 10 for u7231 without u611B, 10 for u4EB2 without
\* u89AA and the size in megabytes, without a format bonus
C9_ScorePerTool ==
    /\ \A s \in scores.enhanced : s = claimedScore(candidate)
    /\ \A s \in scores.utils : s = utilsScore(candidate)

\* both getScore were called on a lossless file named "Artist - Title" that
\* has a size which is not a whole number of megabytes
C9_Witness ==
    /\ scores.enhanced # {}
    /\ scores.utils # {}
    /\ includes(candidate.name, << " ", "-", " " >>)
    /\ hasExt(candidate.name, << "f", "l", "a", "c" >>)
    /\ candidate.size % MB # 0

\* C11: every title normaliser returns its own result unchanged when applied
\* to it: normalize(normalize(s)) = normalize(s)
C11_NormalizeIdempotent ==
    /\ Len(songKeys.enhanced) = 2 => songKeys.enhanced[2] = songKeys.enhanced[1]
    /\ Len(songKeys.track) = 2 => songKeys.track[2] = songKeys.track[1]
    /\ Len(songKeys.orphan) = 2 => songKeys.orphan[2] = songKeys.orphan[1]

\* the path of the k-th file of the named menu
named(k) == NamedMenu[k]

\* both files are in the tree with different bytes, and the run is over
scenario(a, b) ==
    /\ pc = "done"
    /\ onDisk(named(a)) /\ onDisk(named(b))
    /\ md5(contentAt(named(a))) # md5(contentAt(named(b)))

\* some Semantic group holds both files
groupedTogether(a, b) ==
    \E g \in 1..Len(semanticDuplicates) :
       /\ holds(semanticDuplicates[g], named(a))
       /\ holds(semanticDuplicates[g], named(b))

\* C12: "Beyond - <title>.mp3" and "<title> [Live].flac" in one directory are
\* members of one Semantic group
C12_BracketedLiveGrouped == scenario(1, 2) => groupedTogether(1, 2)

\* C13: "<title> (2005<version>).mp3" and "<title>.flac" are members of one
\* Semantic group
C13_DatedVersionGrouped == scenario(3, 4) => groupedTogether(3, 4)

\* C17: no scanned candidate has a name starting with '.' or '_' or lies
\* beneath a directory with such a name
C17_SkipsDotAndUnderscore ==
    \A i \in 1..Len(fileInfos) :
       LET skipped(name) == startsWith(name, << "." >>) \/ startsWith(name, << "_" >>)
       IN  /\ ~skipped(fileInfos[i].path.name)
           /\ \A d \in 1..Len(fileInfos[i].path.dir) : ~skipped(fileInfos[i].path.dir[d])

\* the file lies in the directory or in a directory beneath it
beneath(f, dir) == Len(dir) <= Len(f.dir) /\ SubSeq(f.dir, 1, Len(dir)) = dir

\* C20: a directory listed as empty holds no regular file, neither directly
\* nor in a subdirectory at any depth
C20_ListedEmptyHoldsNoFile ==
    \A i \in 1..Len(emptyDirs) : \A f \in tree.files : ~beneath(f, emptyDirs[i].path)

\* the files of the Semantic groups
semanticMembers ==
    UNION { Range(semanticDuplicates[g].files) : g \in 1..Len(semanticDuplicates) }

\* the file has the Unknown artist and a parsed title of at most limit characters
shortUnknown(f, limit) == f.artist = Unknown /\ Len(f.title) <= limit

C15_NoLyricInGroups ==
    /\ \A g \in 1..Len(exactDuplicates) :
          \A i \in 1..Len(exactDuplicates[g].files) : ~isLrc(exactDuplicates[g].files[i].name)
    /\ \A g \in 1..Len(semanticDuplicates) :
          \A i \in 1..Len(semanticDuplicates[g].files) :
             ~isLrc(semanticDuplicates[g].files[i].name)

\* C16: a hashed file has more than zero bytes and shares its size with another
\* candidate
C16_LazyHashing ==
    \A a \in 1..Len(fileInfos) :
       fileInfos[a].path \in hashed =>
          /\ fileInfos[a].size > 0
          /\ \E b \in 1..Len(fileInfos) : b # a /\ fileInfos[b].size = fileInfos[a].size

\* C18: a run moves, renames or deletes no file of the scanned tree
C18_RunLeavesFilesInPlace == [][disk' = disk]_vars

\* the directory of the lyric file holds an audio file of the same base name,
\* compared without regard to case
hasAudioOfSameName(f) ==
    \E i \in 1..Len(disk) :
       /\ disk[i].path.dir = f.path.dir
       /\ \E e \in AUDIO_EXTENSIONS_find_orphan_lrcs : hasExt(disk[i].path.name, e)
       /\ toLowerCase(basenameNoExt(disk[i].path.name))
             = toLowerCase(basenameNoExt(f.path.name))

\* C19: a .lrc file that the scan reaches is reported as orphaned if and only if
\* its directory holds no audio file of the same base name, compared without
\* regard to case
C19_OrphanIffNoAudio ==
    pc \in {"find_orphan_lrcs_done", "part_013_done"} =>
       \A i \in 1..Len(disk) :
          ( /\ isLrc(disk[i].path.name)
            /\ disk[i].path.name[1] \notin {".", "_"} )
          => ( (\E k \in 1..Len(orphans) : orphans[k] = disk[i].path)
                  <=> ~hasAudioOfSameName(disk[i]) )

\* the audio formats the README lists as supported (README.md 685-687)
supportedFormats ==
    { << "m", "p", "3" >>, << "f", "l", "a", "c" >>, << "m", "4", "a" >>,
      << "w", "a", "v" >>, << "a", "p", "e" >>, << "w", "m", "a" >>,
      << "a", "a", "c" >>, << "o", "g", "g" >>, << "d", "f", "f" >>,
      << "d", "s", "f" >> }

\* C21: a directory listed as a no-song directory holds files, and no file
\* with a supported audio extension lies anywhere beneath it
C21_NoSongDirHoldsNoAudio ==
    \A i \in 1..Len(noAudioDirs) :
        /\ \E f \in tree.files : f.dir = noAudioDirs[i].path
        /\ \A f \in tree.files :
              beneath(f, noAudioDirs[i].path)
                  => \A e \in supportedFormats : ~hasExt(f.name, e)

\* the paths the script moves
movedPaths == { lines[n].src : n \in { k \in 1..Len(lines) : lines[k].cmd = "mv" } }

\* the first file of every group of the plan: the file the group keeps
keepers == { allGroups[k].files[1].path : k \in 1..Len(allGroups) }

\* C22: over the whole script, Exact section and Semantic section together,
\* the file a group keeps is never the source of a move
C22_KeeperNeverMoved ==
    pc = "done" /\ lines # << >> => keepers \cap movedPaths = {}

\* the audio files the script leaves in place: the first file of a group that
\* no section moves, and the files of no group
staysInPlace == { f \in Range(fileInfos) : f.path \notin movedPaths }

\* C23: the script never moves the lyric file (same directory, same base
\* name, .lrc) of an audio file that stays in place
C23_LyricOfKeptStays ==
    pc = "done" =>
       \A f \in staysInPlace : lyricOf(f.path) \notin movedPaths

\* the script has been carried out
executed == \E i \in 1..Len(disk) : inTempDir(disk[i].path)

\* C24: once the script has been carried out, a second run of the detector on
\* the same root directory finds no duplicate group
C24_RerunFindsNothing ==
    executed /\ pc = "done" =>
        exactDuplicates = << >> /\ semanticDuplicates = << >>

\* C25: a file whose content hash could not be computed is in no Exact group,
\* and the run goes on: the failure does not end it
C25_HashFailureNotFatal ==
    unreadable # {} =>
        /\ pc # "crashed"
        /\ unreadable \cap pathsOf(exactDuplicates) = {}

\* the function is in its loop
looping == pc \in {"check_duplicates_enhanced", "hot_songs", "find_orphan_lrcs"}

\* C26: the suffix-stripping loop terminates for every input: an iteration
\* either strictly shortens the string and the loop goes on, or leaves it
\* unchanged and the loop exits
C26_SuffixLoopTerminates ==
    /\ [][looping =>
             \/ Len(result') < Len(result) /\ pc' = pc
             \/ result' = result /\ pc' = "return"]_vars
    /\ <>(pc = "returned")

\* the loop has left after an iteration that changed nothing, with two blocks
\* stripped before
C26_Witness ==
    /\ pc = "return"
    /\ prev = result
    /\ Len(trackName) - Len(result) >= 6

\* a parenthetical whose content is neither a word of DESCRIPTIVE_SUFFIXES nor
\* a year or version marker
otherParenthetical == << "(", "a", ")" >>

endsWith(s, pat) == MatchAt(s, Len(s) - Len(pat) + 1, pat)

\* C27: a name that ends in a parenthetical which is neither descriptive nor
\* a year or version marker keeps it: removeDescriptiveSuffix returns a string
\* that still ends in that parenthetical
C27_OtherParentheticalKept ==
    pc = "returned" /\ endsWith(trackName, otherParenthetical)
        => endsWith(result, otherParenthetical)

\* a name has been parsed
parsed == pc \in {"parsed_enhanced", "parsed_utils"}

\* the name without extension and track number, as the parser that ran sees it
parsedName ==
    IF pc = "parsed_enhanced"
    THEN removeTrackNumber(basenameNoExt(disk[1].path.name))
    ELSE removeTrackNumber_utils(basenameNoExt(disk[1].path.name))

\* the artist of a name no artist was extracted from
noArtist == IF pc = "parsed_enhanced" THEN dirArtist ELSE Unknown

\* what lies left and right of the first occurrence of sep, trimmed
leftOf(s, sep) == trim(SubSeq(s, 1, indexOf(s, sep) - 1))

rightOf(s, sep) == trim(Tail_(s, indexOf(s, sep) + Len(sep)))

\* the separator has something on either side
twoSided(s, sep) == leftOf(s, sep) # << >> /\ rightOf(s, sep) # << >>

\* C28: a name that holds " - ", with something on either side of the first
\* one, is split there: what lies left of it is the artist, and all that lies
\* right of it, a later " - " included, is the title
C28_SplitAtFirstSpacedDash ==
    parsed /\ includes(parsedName, << " ", "-", " " >>)
           /\ twoSided(parsedName, << " ", "-", " " >>) =>
        /\ fileInfos[1].title = rightOf(parsedName, << " ", "-", " " >>)
        /\ fileInfos[1].artist = leftOf(parsedName, << " ", "-", " " >>)

\* C29: a name that holds "-" and no " - ", with something on either side of
\* the first "-", is split there into artist and title, unless the left side
\* is all digits: then no artist is extracted from it
C29_SplitAtFirstBareDash ==
    parsed /\ includes(parsedName, << "-" >>)
           /\ ~includes(parsedName, << " ", "-", " " >>)
           /\ twoSided(parsedName, << "-" >>) =>
        IF allDigits(leftOf(parsedName, << "-" >>))
        THEN fileInfos[1].artist = noArtist
        ELSE /\ fileInfos[1].title = rightOf(parsedName, << "-" >>)
             /\ fileInfos[1].artist = leftOf(parsedName, << "-" >>)

\* the files in the quarantine directory of the script
quarantined == { i \in 1..Len(disk) : inTempDir(disk[i].path) }

\* C30: no mv of the script replaces a file already in the quarantine: once
\* the script has been carried out, the quarantine holds one file for every
\* file the script moves
C30_NoMoveOverwrites ==
    executed /\ pc = "scan" => Cardinality(quarantined) = Cardinality(movedPaths)

====
